---------------------------- MODULE Spec2Model ----------------------------
(***************************************************************************)
(* Version / constraint parsing and matching of dephub-core, for the two   *)
(* ecosystems (Composer and PIP).                                          *)
(*                                                                         *)
(* A Go string is a sequence of one-character strings.  A Go int (64 bit)  *)
(* that strconv.ParseInt produced is kept as its canonical decimal digit   *)
(* sequence (no leading zero), so that values up to 2^63-1 are exact.      *)
(***************************************************************************)
EXTENDS Integers, Sequences, FiniteSets, TLC

(***************************************************************************)
(* Characters and strings                                                  *)
(***************************************************************************)
DigitChars == <<"0", "1", "2", "3", "4", "5", "6", "7", "8", "9">>

UpperChars == <<"A", "B", "C", "D", "E", "F", "G", "H", "I", "J", "K", "L", "M",
                "N", "O", "P", "Q", "R", "S", "T", "U", "V", "W", "X", "Y", "Z">>

LowerChars == <<"a", "b", "c", "d", "e", "f", "g", "h", "i", "j", "k", "l", "m",
                "n", "o", "p", "q", "r", "s", "t", "u", "v", "w", "x", "y", "z">>

Range(f) == {f[i] : i \in DOMAIN f}

\* [0-9]
Digits == Range(DigitChars)

\* [0-9A-Za-z\-] : one character of a pre-release / build identifier
IdentClass == Digits \cup Range(UpperChars) \cup Range(LowerChars) \cup {"-"}

\* [0-9|x|X|\*] : one character of a wildcard-capable segment
WildClass == Digits \cup {"|", "x", "X", "*"}

\* \s of Go's regexp (RE2): [\t\n\f\r ]
SpaceClass == {" ", "\t", "\n", "\f", "\r"}

\* s[i..j] (empty when j < i)
Sub(s, i, j) == IF j < i THEN <<>> ELSE SubSeq(s, i, j)

\* the character at i, or "" past the end
At(s, i) == IF i >= 1 /\ i <= Len(s) THEN s[i] ELSE ""

\* the position after the longest run of characters of cls that starts at i
\* (a greedy cls* of the pattern)
ScanWhile(s, i, cls) ==
    IF \E j \in i..Len(s) : s[j] \notin cls
    THEN CHOOSE j \in i..Len(s) :
             s[j] \notin cls /\ \A k \in i..(j - 1) : s[k] \in cls
    ELSE Len(s) + 1

\* strings.ToLower on the characters of one string
ToLower(s) ==
    [i \in 1..Len(s) |->
        IF \E k \in 1..Len(UpperChars) : UpperChars[k] = s[i]
        THEN LowerChars[CHOOSE k \in 1..Len(UpperChars) : UpperChars[k] = s[i]]
        ELSE s[i]]

\* strings.HasPrefix(Sub(s, i, Len(s)), p)
HasPrefixAt(s, i, p) ==
    i + Len(p) - 1 <= Len(s) /\ Sub(s, i, i + Len(p) - 1) = p

\* strings.TrimPrefix(s, p)
TrimPrefix(s, p) ==
    IF HasPrefixAt(s, 1, p) THEN Sub(s, Len(p) + 1, Len(s)) ELSE s

\* strings.Split(s, sep), sep not empty
RECURSIVE Split(_, _)
Split(s, sep) ==
    IF \E i \in 1..Len(s) : HasPrefixAt(s, i, sep)
    THEN LET i == CHOOSE k \in 1..Len(s) :
                     HasPrefixAt(s, k, sep)
                     /\ \A m \in 1..(k - 1) : ~HasPrefixAt(s, m, sep)
         IN <<Sub(s, 1, i - 1)>> \o Split(Sub(s, i + Len(sep), Len(s)), sep)
    ELSE <<s>>

\* a split at every single separator character: a run of separators leaves
\* empty fields between its characters
RECURSIVE FieldsFunc_EverySeparator(_, _)
FieldsFunc_EverySeparator(s, seps) ==
    LET stop == ScanWhile(s, 1, Range(s) \ seps)
    IN IF stop > Len(s) THEN <<s>>
       ELSE <<Sub(s, 1, stop - 1)>>
                \o FieldsFunc_EverySeparator(Sub(s, stop + 1, Len(s)), seps)

\* strings.FieldsFunc(s, f) with f true exactly on the characters of seps:
\* the maximal runs of characters that are not separators, none of them empty
RECURSIVE FieldsFunc(_, _)
FieldsFunc(s, seps) ==
    LET start == ScanWhile(s, 1, seps)
        stop  == ScanWhile(s, start, Range(s) \ seps)
    IN IF start > Len(s) THEN <<>>
       ELSE <<Sub(s, start, stop - 1)>> \o FieldsFunc(Sub(s, stop, Len(s)), seps)

(***************************************************************************)
(* Go int values read by strconv.ParseInt(s, 10, 0)                        *)
(***************************************************************************)
\* math.MaxInt64 = 9223372036854775807, the largest value of a 64-bit int
MaxInt64 == <<"9", "2", "2", "3", "3", "7", "2", "0", "3", "6",
              "8", "5", "4", "7", "7", "5", "8", "0", "7">>

IntZero == <<"0">>

DigitVal(c) == (CHOOSE k \in 1..10 : DigitChars[k] = c) - 1

\* a < b for two non-negative ints
IntLess(a, b) ==
    \/ Len(a) < Len(b)
    \/ /\ Len(a) = Len(b)
       /\ \E i \in 1..Len(a) :
              /\ DigitVal(a[i]) < DigitVal(b[i])
              /\ \A k \in 1..(i - 1) : a[k] = b[k]

\* a < b + 1 in Go's wrapping 64-bit arithmetic, a and b non-negative:
\* MaxInt64 + 1 wraps to MinInt64, below every non-negative a
IntLessSucc(a, b) ==
    IF b = MaxInt64 THEN FALSE ELSE (a = b \/ IntLess(a, b))

\* strconv.ParseInt(s, 10, 0) of a non-empty run of decimal digits:
\* the value, or a range error above MaxInt64
ParseInt(s) ==
    LET nz  == ScanWhile(s, 1, {"0"})
        val == IF nz > Len(s) THEN IntZero ELSE Sub(s, nz, Len(s))
    IN IF IntLess(MaxInt64, val)
       THEN [ok |-> FALSE, val |-> IntZero]
       ELSE [ok |-> TRUE, val |-> val]

(***************************************************************************)
(* Error values: nil is the empty sequence, an error is its message, a     *)
(* sequence of text pieces (format literals and the characters of the      *)
(* arguments).  A returned pointer or interface is <<>> (nil) or <<value>>.*)
(***************************************************************************)
Nil == <<>>

\* strconv.Quote, the %q verb: the string between double quotes, with the
\* quote, the backslash and the control characters escaped
RECURSIVE Quoted(_)
Quoted(s) ==
    IF s = <<>> THEN <<>>
    ELSE LET c == Head(s)
             e == CASE c = "\"" -> <<"\\", "\"">>
                    [] c = "\\" -> <<"\\", "\\">>
                    [] c = "\t" -> <<"\\", "t">>
                    [] c = "\n" -> <<"\\", "n">>
                    [] c = "\f" -> <<"\\", "f">>
                    [] c = "\r" -> <<"\\", "r">>
                    [] OTHER    -> <<c>>
         IN e \o Quoted(Tail(s))

Quote(s) == <<"\"">> \o Quoted(s) \o <<"\"">>

\* the error of strconv.ParseInt on a value out of range, as "%s" prints it
ParseIntError(s) ==
    <<"strconv.ParseInt: parsing ">> \o Quote(s) \o <<": value out of range">>

(***************************************************************************)
(* Regular expressions.  A pattern is the sequence of its pieces, matched  *)
(* from left to right, anchored at both ends (^...$).  The operator        *)
(* alternation is tried alternative by alternative, in its order, each     *)
(* with the rest of the pattern (Go's leftmost-first match).  Every other  *)
(* piece is greedy and never needs to give characters back: in these       *)
(* patterns it is followed only by pieces that none of its own characters  *)
(* can start.                                                              *)
(***************************************************************************)
\* v? and the like
POpt(ch) == [t |-> "opt", ch |-> ch]
\* ([cls]+), submatch cap
PPlus(cls, cap) == [t |-> "plus", cls |-> cls, cap |-> cap]
\* (\.[cls]+)?, submatch cap
POptSeg(cls, cap) == [t |-> "optseg", cls |-> cls, cap |-> cap]
\* (-([0-9A-Za-z\-]+(\.[0-9A-Za-z\-]+)*))? with mark "-", (\+(...))? with "+"
POptSuffix(mark, cap) == [t |-> "optsuffix", ch |-> mark, cap |-> cap]
\* \s*
PSpaces == [t |-> "spaces"]
\* (alts[1]|alts[2]|...), submatch cap
PAlt(alts, cap) == [t |-> "alt", alts |-> alts, cap |-> cap]
\* the opening and closing parenthesis of a group around several pieces
POpen(cap) == [t |-> "open", cap |-> cap]
PClose(cap) == [t |-> "close", cap |-> cap]

\* the submatches of a pattern, before the match
NoSubmatches == [k \in 1..9 |-> <<>>]

NoMatch == [ok |-> FALSE, m |-> NoSubmatches]

\* [0-9A-Za-z\-]+(\.[0-9A-Za-z\-]+)* at i, i on an identifier character
RECURSIVE IdentList(_, _)
IdentList(s, i) ==
    IF At(s, ScanWhile(s, i, IdentClass)) = "."
       /\ At(s, ScanWhile(s, i, IdentClass) + 1) \in IdentClass
    THEN IdentList(s, ScanWhile(s, i, IdentClass) + 1)
    ELSE ScanWhile(s, i, IdentClass)

\* the position after piece p matched at i (i itself when p matched nothing),
\* or 0 when p cannot match at i; p any piece but an alternation
PieceEnd(s, i, p) ==
    CASE p.t = "opt" -> IF At(s, i) = p.ch THEN i + 1 ELSE i
      [] p.t = "plus" -> IF At(s, i) \in p.cls THEN ScanWhile(s, i, p.cls) ELSE 0
      [] p.t = "optseg" ->
             IF At(s, i) = "." /\ At(s, i + 1) \in p.cls
             THEN ScanWhile(s, i + 1, p.cls)
             ELSE i
      [] p.t = "optsuffix" ->
             IF At(s, i) = p.ch /\ At(s, i + 1) \in IdentClass
             THEN IdentList(s, i + 1)
             ELSE i
      [] p.t = "spaces" -> ScanWhile(s, i, SpaceClass)
      [] OTHER -> i

\* regexp.FindStringSubmatch from piece k of pat and position i of s on;
\* m holds the submatches so far, and st where the open groups started
RECURSIVE RgxMatchFrom(_, _, _, _, _, _)
RECURSIVE RgxTryAlts(_, _, _, _, _, _, _)
RgxMatchFrom(s, pat, k, i, m, st) ==
    IF k > Len(pat)
    THEN IF i = Len(s) + 1 THEN [ok |-> TRUE, m |-> m] ELSE NoMatch
    ELSE IF pat[k].t = "alt" THEN RgxTryAlts(s, pat, k, i, m, st, 1)
    ELSE IF pat[k].t = "open"
    THEN RgxMatchFrom(s, pat, k + 1, i, m, [st EXCEPT ![pat[k].cap] = i])
    ELSE IF pat[k].t = "close"
    THEN RgxMatchFrom(s, pat, k + 1, i,
                      [m EXCEPT ![pat[k].cap] = Sub(s, st[pat[k].cap], i - 1)], st)
    ELSE IF PieceEnd(s, i, pat[k]) = 0 THEN NoMatch
    ELSE IF pat[k].t \in {"plus", "optseg", "optsuffix"}
    THEN RgxMatchFrom(s, pat, k + 1, PieceEnd(s, i, pat[k]),
                      [m EXCEPT ![pat[k].cap] = Sub(s, i, PieceEnd(s, i, pat[k]) - 1)],
                      st)
    ELSE RgxMatchFrom(s, pat, k + 1, PieceEnd(s, i, pat[k]), m, st)

\* Variant of RgxTryAlts that keeps the first alternative found at i and
\* never comes back to try a later one; C18's property tells it from the
\* original.
RECURSIVE RgxTryAlts_FirstFound(_, _, _, _, _, _, _)
RgxTryAlts_FirstFound(s, pat, k, i, m, st, j) ==
    IF j > Len(pat[k].alts) THEN NoMatch
    ELSE IF HasPrefixAt(s, i, pat[k].alts[j])
    THEN RgxMatchFrom(s, pat, k + 1, i + Len(pat[k].alts[j]),
                      [m EXCEPT ![pat[k].cap] = pat[k].alts[j]], st)
    ELSE RgxTryAlts_FirstFound(s, pat, k, i, m, st, j + 1)

\* the alternation pat[k] at i, from its alternative j on
RgxTryAlts(s, pat, k, i, m, st, j) ==
    IF j > Len(pat[k].alts) THEN NoMatch
    ELSE IF HasPrefixAt(s, i, pat[k].alts[j])
            /\ RgxMatchFrom(s, pat, k + 1, i + Len(pat[k].alts[j]),
                            [m EXCEPT ![pat[k].cap] = pat[k].alts[j]], st).ok
    THEN RgxMatchFrom(s, pat, k + 1, i + Len(pat[k].alts[j]),
                      [m EXCEPT ![pat[k].cap] = pat[k].alts[j]], st)
    ELSE RgxTryAlts(s, pat, k, i, m, st, j + 1)

\* re.FindStringSubmatch(s) for the compiled pattern ^pat$: m[k] is
\* submatch k, the empty string for a group that took no part
FindStringSubmatch(pat, s) ==
    RgxMatchFrom(s, pat, 1, 1, NoSubmatches, [k \in 1..9 |-> 0])

(***************************************************************************)
(* Both packages: wildcard marks, operator tables                          *)
(***************************************************************************)
\* ops of init: the quoted operator tokens in the order the range over the
\* operator map delivered them, which the language leaves open
VARIABLE ops

\* wildcard position marks (e.g. 0 for '1.*.3')
wildcardNone == -1
wildcardMajor == 0
wildcardMinor == 1
wildcardPatch == 2

Dot == <<".">>

\* table[operator] of a Go map: the zero value (a nil func) for a missing key
OperatorFunc(table, operator) ==
    IF \E i \in 1..Len(table) : table[i].op = operator
    THEN table[CHOOSE i \in 1..Len(table) : table[i].op = operator].fn
    ELSE "nil"

(***************************************************************************)
(* Composer: versions, unary constraints, operators                        *)
(***************************************************************************)
\* Variant of composerConstraintEqual that ignores the wildcard and compares
\* all three segments; C4's property tells it from the original.
composerConstraintEqual_Exact(v, c) ==
    v.major = c.ver.major /\ v.minor = c.ver.minor /\ v.patch = c.ver.patch

composerConstraintEqual(v, c) ==
    CASE c.wildcard = wildcardNone ->
             v.major = c.ver.major /\ v.minor = c.ver.minor /\ v.patch = c.ver.patch
      [] c.wildcard = wildcardMajor -> TRUE
      [] c.wildcard = wildcardMinor -> v.major = c.ver.major
      [] c.wildcard = wildcardPatch ->
             v.major = c.ver.major /\ v.minor = c.ver.minor
      [] OTHER -> FALSE

composerConstraintNotEqual(v, c) == ~composerConstraintEqual(v, c)

\* Variant of composerConstraintGreaterThan that stops at the minor segment;
\* C6's property tells it from the original.
composerConstraintGreaterThan_MajorMinor(v, c) ==
    CASE v.major # c.ver.major -> IntLess(c.ver.major, v.major)
      [] v.major = c.ver.major /\ v.minor # c.ver.minor ->
             IntLess(c.ver.minor, v.minor)
      [] OTHER -> FALSE

composerConstraintGreaterThan(v, c) ==
    CASE v.major # c.ver.major -> IntLess(c.ver.major, v.major)
      [] v.major = c.ver.major /\ v.minor # c.ver.minor ->
             IntLess(c.ver.minor, v.minor)
      [] v.major = c.ver.major /\ v.minor = c.ver.minor /\ v.patch # c.ver.patch ->
             IntLess(c.ver.patch, v.patch)
      [] OTHER -> FALSE

composerConstraintLessThan_MajorOnly(v, c) == IntLess(v.major, c.ver.major)

composerConstraintLessThan(v, c) ==
    CASE v.major # c.ver.major -> IntLess(v.major, c.ver.major)
      [] v.major = c.ver.major /\ v.minor # c.ver.minor ->
             IntLess(v.minor, c.ver.minor)
      [] v.major = c.ver.major /\ v.minor = c.ver.minor /\ v.patch # c.ver.patch ->
             IntLess(v.patch, c.ver.patch)
      [] OTHER -> FALSE

composerConstraintGreaterThanEqual(v, c) ==
    composerConstraintEqual(v, c) \/ composerConstraintGreaterThan(v, c)

composerConstraintLessThanEqual(v, c) ==
    composerConstraintEqual(v, c) \/ composerConstraintLessThan(v, c)

composerConstraintTilde_SameMajor(v, c) ==
    IF composerConstraintLessThan(v, c) THEN FALSE
    ELSE IF c.wildcard = wildcardMinor THEN v.major = c.ver.major
    ELSE c.wildcard = wildcardMajor \/ v.major = c.ver.major

composerConstraintTilde(v, c) ==
    IF composerConstraintLessThan(v, c) THEN FALSE
    ELSE IF /\ c.wildcard = wildcardNone
            /\ v.major = c.ver.major
            /\ IntLessSucc(c.ver.minor, v.minor)
    THEN TRUE
    ELSE IF /\ c.wildcard = wildcardPatch
            /\ v.major = c.ver.major
            /\ IntLessSucc(c.ver.major, v.major)
    THEN TRUE
    ELSE IF \/ c.wildcard = wildcardMajor
            \/ (c.ver.major = IntZero /\ c.ver.minor = IntZero /\ c.ver.patch = IntZero)
    THEN TRUE
    ELSE FALSE

composerConstraintCaret(v, c) ==
    IF composerConstraintLessThan(v, c) THEN FALSE
    ELSE IF c.wildcard = wildcardPatch /\ v.major = c.ver.major
    THEN v.minor = c.ver.minor
    ELSE composerConstraintTilde(v, c)

\* composerCfg.operators: the operator tokens and their check functions
composerOperators ==
    << [op |-> <<>>, fn |-> "composerConstraintEqual"],
       [op |-> <<"!", "=">>, fn |-> "composerConstraintNotEqual"],
       [op |-> <<">">>, fn |-> "composerConstraintGreaterThan"],
       [op |-> <<"<">>, fn |-> "composerConstraintLessThan"],
       [op |-> <<">", "=">>, fn |-> "composerConstraintGreaterThanEqual"],
       [op |-> <<"<", "=">>, fn |-> "composerConstraintLessThanEqual"],
       [op |-> <<"~">>, fn |-> "composerConstraintTilde"],
       [op |-> <<"^">>, fn |-> "composerConstraintCaret"] >>

\* the operator tokens of composerCfg.operators
composerOps == [i \in 1..Len(composerOperators) |-> composerOperators[i].op]

\* composerCfg.versionRgxCompiled: "^" + versionRgx + "$"
composerVersionRgx ==
    << POpt("v"), PPlus(Digits, 1), POptSeg(Digits, 2), POptSeg(Digits, 3),
       POptSuffix("-", 4), POptSuffix("+", 7) >>

\* composerCfg.constraintsRgxCompiled: ^\s*(ops)\s*(wildcardRgx)\s*$
composerConstraintsRgx ==
    << PSpaces, PAlt(ops, 1), PSpaces,
       POpen(2), POpt("v"), PPlus(WildClass, 3), POptSeg(WildClass, 4),
       POptSeg(WildClass, 5), POptSuffix("-", 6), POptSuffix("+", 9), PClose(2),
       PSpaces >>

\* Variant of composerVersionSegments that reads the patch value from the
\* minor segment; C14's property tells it from the original.
composerVersionSegments_PatchFromMinor(value, major, minor, patch) ==
    IF ~ParseInt(major).ok
    THEN [ver |-> Nil, err |-> <<"segment parse error: ">> \o ParseIntError(major)]
    ELSE IF minor # <<>> /\ ~ParseInt(minor).ok
    THEN [ver |-> Nil, err |-> <<"segment parse error: ">> \o ParseIntError(minor)]
    ELSE IF patch # <<>> /\ ~ParseInt(patch).ok
    THEN [ver |-> Nil, err |-> <<"segment parse error: ">> \o ParseIntError(patch)]
    ELSE [ver |-> << [value |-> value,
                      major |-> ParseInt(major).val,
                      minor |-> IF minor # <<>> THEN ParseInt(minor).val ELSE IntZero,
                      patch |-> IF patch # <<>> THEN ParseInt(minor).val ELSE IntZero] >>,
          err |-> Nil]

\* NewComposerVersion after the pattern matched: the segments read as ints.
\* major, minor, patch are matches[1] and matches[2], matches[3] without
\* their dot, empty for a segment that is absent
composerVersionSegments(value, major, minor, patch) ==
    IF ~ParseInt(major).ok
    THEN [ver |-> Nil, err |-> <<"segment parse error: ">> \o ParseIntError(major)]
    ELSE IF minor # <<>> /\ ~ParseInt(minor).ok
    THEN [ver |-> Nil, err |-> <<"segment parse error: ">> \o ParseIntError(minor)]
    ELSE IF patch # <<>> /\ ~ParseInt(patch).ok
    THEN [ver |-> Nil, err |-> <<"segment parse error: ">> \o ParseIntError(patch)]
    ELSE [ver |-> << [value |-> value,
                      major |-> ParseInt(major).val,
                      minor |-> IF minor # <<>> THEN ParseInt(minor).val ELSE IntZero,
                      patch |-> IF patch # <<>> THEN ParseInt(patch).val ELSE IntZero] >>,
          err |-> Nil]

\* Variant of composerVersionOf that keeps the lower-cased text as the value
\* of the version; C20's property tells it from the original.
composerVersionOf_LowerValue(value, matches) ==
    IF ~matches.ok
    THEN [ver |-> Nil, err |-> <<"version '">> \o value \o <<"' is not supported">>]
    ELSE composerVersionSegments(ToLower(value), matches.m[1],
                                 TrimPrefix(matches.m[2], Dot),
                                 TrimPrefix(matches.m[3], Dot))

\* NewComposerVersion from `matches`, the submatches of the lower-cased value
composerVersionOf(value, matches) ==
    IF ~matches.ok
    THEN [ver |-> Nil, err |-> <<"version '">> \o value \o <<"' is not supported">>]
    ELSE composerVersionSegments(value, matches.m[1], TrimPrefix(matches.m[2], Dot),
                               TrimPrefix(matches.m[3], Dot))

\* Variant of NewComposerVersion that looks for the pattern from the first
\* digit of the value on; C15's property tells it from the original.
NewComposerVersion_FromFirstDigit(value) ==
    composerVersionOf(value,
        FindStringSubmatch(composerVersionRgx,
            ToLower(Sub(value, ScanWhile(value, 1, Range(LowerChars) \cup Range(UpperChars) \cup SpaceClass),
                        Len(value)))))

\* NewComposerVersion(value): [ver |-> the Version or nil, err |-> the error or nil]
NewComposerVersion(value) ==
    composerVersionOf(value, FindStringSubmatch(composerVersionRgx, ToLower(value)))

\* parseComposerConstraint: the wildcard mark of a clause
composerWildcard(major, minor, patch) ==
    IF major = <<"*">> THEN wildcardMajor
    ELSE IF minor = <<"*">> \/ minor = <<>> THEN wildcardMinor
    ELSE IF patch = <<"*">> \/ patch = <<>> THEN wildcardPatch
    ELSE wildcardNone

\* Variant of composerNormalized that zeroes only the wildcard segment and
\* keeps a patch written after it; C10's property tells it from the original.
composerNormalized_KeepPatch(rawVersion, major, minor, patch, suffix) ==
    IF major = <<"*">> THEN <<"0", ".", "0", ".", "0">>
    ELSE IF minor = <<"*">> \/ minor = <<>>
    THEN major \o <<".", "0", ".">>
         \o (IF patch = <<"*">> \/ patch = <<>> THEN <<"0">> ELSE patch) \o suffix
    ELSE IF patch = <<"*">> \/ patch = <<>>
    THEN major \o Dot \o minor \o <<".", "0">> \o suffix
    ELSE rawVersion

\* parseComposerConstraint: the raw version normalized to a fixed one
\* (suffix is matches[6], the pre-release part with its dash)
composerNormalized(rawVersion, major, minor, patch, suffix) ==
    IF major = <<"*">> THEN <<"0", ".", "0", ".", "0">>
    ELSE IF minor = <<"*">> \/ minor = <<>>
    THEN major \o <<".", "0", ".", "0">> \o suffix
    ELSE IF patch = <<"*">> \/ patch = <<>>
    THEN major \o Dot \o minor \o <<".", "0">> \o suffix
    ELSE rawVersion

\* Variant of composerConstraintBuild that looks the check function up under
\* the version text instead of the operator; C17's property tells it from
\* the original.
composerConstraintBuild_RawKey(operator, rawVersion, wildcard, vrs) ==
    IF vrs.err # Nil
    THEN [cc |-> Nil, err |-> <<"unable to parse version: ">> \o vrs.err]
    ELSE [cc  |-> << [compare  |-> OperatorFunc(composerOperators, rawVersion),
                      operator |-> operator,
                      wildcard |-> wildcard,
                      raw      |-> rawVersion,
                      ver      |-> vrs.ver[1]] >>,
          err |-> Nil]

\* parseComposerConstraint: the clause, once its version vrs is parsed
composerConstraintBuild(operator, rawVersion, wildcard, vrs) ==
    IF vrs.err # Nil
    THEN [cc |-> Nil, err |-> <<"unable to parse version: ">> \o vrs.err]
    ELSE [cc  |-> << [compare  |-> OperatorFunc(composerOperators, operator),
                      operator |-> operator,
                      wildcard |-> wildcard,
                      raw      |-> rawVersion,
                      ver      |-> vrs.ver[1]] >>,
          err |-> Nil]

\* parseComposerConstraint from `matches`, the submatches of c
composerConstraintOf(c, matches) ==
    IF ~matches.ok
    THEN [cc |-> Nil, err |-> <<"constraint not supported: ">> \o Quote(c)]
    ELSE composerConstraintBuild(
             matches.m[1], matches.m[2],
             composerWildcard(matches.m[3], TrimPrefix(matches.m[4], Dot),
                              TrimPrefix(matches.m[5], Dot)),
             NewComposerVersion(
                 composerNormalized(matches.m[2], matches.m[3],
                                    TrimPrefix(matches.m[4], Dot),
                                    TrimPrefix(matches.m[5], Dot), matches.m[6])))

\* parseComposerConstraint(c): [cc |-> the clause or nil, err |-> the error or nil]
parseComposerConstraint(c) ==
    composerConstraintOf(c, FindStringSubmatch(composerConstraintsRgx, c))

\* the loop over the clauses of one OR-group in NewComposerConstraints:
\* result[i] = *pc for every clause, or the first error
RECURSIVE composerParseGroup(_, _, _)
composerParseGroupStep(cs, i, result, pc) ==
    IF pc.err # Nil THEN [result |-> <<>>, err |-> pc.err]
    ELSE composerParseGroup(cs, i + 1, Append(result, pc.cc[1]))

composerParseGroup(cs, i, result) ==
    IF i > Len(cs) THEN [result |-> result, err |-> Nil]
    ELSE composerParseGroupStep(cs, i, result, parseComposerConstraint(cs[i]))

\* the loop over the OR-groups in NewComposerConstraints: ors[k] = result
\* for every group, or the first error
RECURSIVE composerParseOrs(_, _, _)
composerParseOrsStep(orsRaw, k, ors, g) ==
    IF g.err # Nil THEN [ors |-> <<>>, err |-> g.err]
    ELSE composerParseOrs(orsRaw, k + 1, Append(ors, g.result))

composerParseOrs(orsRaw, k, ors) ==
    IF k > Len(orsRaw) THEN [ors |-> ors, err |-> Nil]
    ELSE composerParseOrsStep(orsRaw, k, ors,
             composerParseGroup(FieldsFunc(orsRaw[k], {",", " "}), 1, <<>>))

\* NewComposerConstraints, once every group is parsed
composerConstraintsOf(value, parsed) ==
    IF parsed.err # Nil THEN [con |-> Nil, err |-> parsed.err]
    ELSE [con |-> << [value |-> value, constraints |-> parsed.ors] >>, err |-> Nil]

\* NewComposerConstraints(value): [con |-> the Constraints or nil, err |-> ...]
NewComposerConstraints(value) ==
    composerConstraintsOf(value, composerParseOrs(Split(value, <<"|", "|">>), 1, <<>>))

\* composerConstraint.match: the clause's own compare function
composerConstraint_match(cct, v) ==
    CASE cct.compare = "composerConstraintEqual" -> composerConstraintEqual(v, cct)
      [] cct.compare = "composerConstraintNotEqual" -> composerConstraintNotEqual(v, cct)
      [] cct.compare = "composerConstraintGreaterThan" -> composerConstraintGreaterThan(v, cct)
      [] cct.compare = "composerConstraintLessThan" -> composerConstraintLessThan(v, cct)
      [] cct.compare = "composerConstraintGreaterThanEqual" -> composerConstraintGreaterThanEqual(v, cct)
      [] cct.compare = "composerConstraintLessThanEqual" -> composerConstraintLessThanEqual(v, cct)
      [] cct.compare = "composerConstraintTilde" -> composerConstraintTilde(v, cct)
      [] cct.compare = "composerConstraintCaret" -> composerConstraintCaret(v, cct)

\* the inner loop of ComposerConstraints.Match: andMatches after the group
RECURSIVE composerAndMatches(_, _, _)
composerAndMatches(or, i, ver) ==
    IF i > Len(or) THEN TRUE
    ELSE IF ~composerConstraint_match(or[i], ver) THEN FALSE
    ELSE composerAndMatches(or, i + 1, ver)

\* Variant of composerOrMatches that wants every OR-group to match; C1's
\* property tells it from the original.
RECURSIVE composerOrMatches_EveryGroup(_, _, _)
composerOrMatches_EveryGroup(constraints, k, ver) ==
    IF k > Len(constraints) THEN TRUE
    ELSE IF ~composerAndMatches(constraints[k], 1, ver) THEN FALSE
    ELSE composerOrMatches_EveryGroup(constraints, k + 1, ver)

\* the outer loop of ComposerConstraints.Match, from group k on
RECURSIVE composerOrMatches(_, _, _)
composerOrMatches(constraints, k, ver) ==
    IF k > Len(constraints) THEN FALSE
    ELSE IF composerAndMatches(constraints[k], 1, ver) THEN TRUE
    ELSE composerOrMatches(constraints, k + 1, ver)

\* ComposerConstraints.Match(ver)
ComposerConstraints_Match(cc, ver) == composerOrMatches(cc.constraints, 1, ver)

\* ComposerVersion.Match(b)
ComposerVersion_Match(cv, b) == ComposerConstraints_Match(b, cv)

\* ComposerConstraints.Value and ComposerVersion.Value
ComposerConstraints_Value(cc) == cc.value

ComposerVersion_Value(cv) == cv.value

(***************************************************************************)
(* PIP     : versions, unary constraints, operators                        *)
(***************************************************************************)
pipConstraintEqual(v, c) ==
    CASE c.wildcard = wildcardNone ->
             v.major = c.ver.major /\ v.minor = c.ver.minor /\ v.patch = c.ver.patch
      [] c.wildcard = wildcardMajor -> TRUE
      [] c.wildcard = wildcardMinor -> v.major = c.ver.major
      [] c.wildcard = wildcardPatch ->
             v.major = c.ver.major /\ v.minor = c.ver.minor
      [] OTHER -> FALSE

\* Variant of pipConstraintArbitraryEqual that compares the parsed segments
\* as '==' does; C9's property tells it from the original.
pipConstraintArbitraryEqual_Semantic(v, c) == pipConstraintEqual(v, c)

\* string equality of the version's Value() and the clause's raw text
pipConstraintArbitraryEqual(v, c) == v.value = c.raw

pipConstraintNotEqual(v, c) == ~pipConstraintEqual(v, c)

pipConstraintGreaterThan(v, c) ==
    CASE v.major # c.ver.major -> IntLess(c.ver.major, v.major)
      [] v.major = c.ver.major /\ v.minor # c.ver.minor ->
             IntLess(c.ver.minor, v.minor)
      [] v.major = c.ver.major /\ v.minor = c.ver.minor /\ v.patch # c.ver.patch ->
             IntLess(c.ver.patch, v.patch)
      [] OTHER -> FALSE

pipConstraintLessThan(v, c) ==
    CASE v.major # c.ver.major -> IntLess(v.major, c.ver.major)
      [] v.major = c.ver.major /\ v.minor # c.ver.minor ->
             IntLess(v.minor, c.ver.minor)
      [] v.major = c.ver.major /\ v.minor = c.ver.minor /\ v.patch # c.ver.patch ->
             IntLess(v.patch, c.ver.patch)
      [] OTHER -> FALSE

\* Variant of pipConstraintGreaterThanEqual that leaves the equal case out;
\* C5's property tells it from the original.
pipConstraintGreaterThanEqual_Strict(v, c) == pipConstraintGreaterThan(v, c)

pipConstraintGreaterThanEqual(v, c) ==
    pipConstraintEqual(v, c) \/ pipConstraintGreaterThan(v, c)

pipConstraintLessThanEqual(v, c) ==
    pipConstraintEqual(v, c) \/ pipConstraintLessThan(v, c)

pipConstraintTildeEqual(v, c) ==
    IF pipConstraintLessThan(v, c) THEN FALSE
    ELSE IF /\ c.wildcard = wildcardNone
            /\ v.major = c.ver.major
            /\ IntLessSucc(c.ver.minor, v.minor)
    THEN TRUE
    ELSE IF /\ c.wildcard = wildcardPatch
            /\ v.major = c.ver.major
            /\ IntLessSucc(c.ver.major, v.major)
    THEN TRUE
    ELSE IF \/ c.wildcard = wildcardMajor
            \/ (c.ver.major = IntZero /\ c.ver.minor = IntZero /\ c.ver.patch = IntZero)
    THEN TRUE
    ELSE FALSE

\* pipCfg.operators: the operator tokens and their check functions
pipOperators ==
    << [op |-> <<>>, fn |-> "pipConstraintEqual"],
       [op |-> <<"=", "=">>, fn |-> "pipConstraintEqual"],
       [op |-> <<"=", "=", "=">>, fn |-> "pipConstraintArbitraryEqual"],
       [op |-> <<"!", "=">>, fn |-> "pipConstraintNotEqual"],
       [op |-> <<">">>, fn |-> "pipConstraintGreaterThan"],
       [op |-> <<"<">>, fn |-> "pipConstraintLessThan"],
       [op |-> <<">", "=">>, fn |-> "pipConstraintGreaterThanEqual"],
       [op |-> <<"<", "=">>, fn |-> "pipConstraintLessThanEqual"],
       [op |-> <<"~", "=">>, fn |-> "pipConstraintTildeEqual"] >>

\* the operator tokens of pipCfg.operators
pipOps == [i \in 1..Len(pipOperators) |-> pipOperators[i].op]

\* pipCfg.versionRgxCompiled: "^" + versionRgx + "$"
pipVersionRgx ==
    << POpt("v"), PPlus(Digits, 1), POptSeg(Digits, 2), POptSeg(Digits, 3),
       POptSeg(Digits, 4), POptSuffix("-", 5), POptSuffix("+", 8) >>

\* pipCfg.constraintsRgxCompiled: ^\s*(ops)\s*(wildcardRgx)\s*$
pipConstraintsRgx ==
    << PSpaces, PAlt(ops, 1), PSpaces,
       POpen(2), POpt("v"), PPlus(WildClass, 3), POptSeg(WildClass, 4),
       POptSeg(WildClass, 5), POptSuffix("-", 6), POptSuffix("+", 9), PClose(2),
       PSpaces >>

\* NewPipVersion after the pattern matched: the segments read as ints.
\* major, minor, patch are matches[1] and matches[2], matches[3] without
\* their dot, empty for a segment that is absent
pipVersionSegments(value, major, minor, patch) ==
    IF ~ParseInt(major).ok
    THEN [ver |-> Nil, err |-> <<"segment parse error: ">> \o ParseIntError(major)]
    ELSE IF minor # <<>> /\ ~ParseInt(minor).ok
    THEN [ver |-> Nil, err |-> <<"segment parse error: ">> \o ParseIntError(minor)]
    ELSE IF patch # <<>> /\ ~ParseInt(patch).ok
    THEN [ver |-> Nil, err |-> <<"segment parse error: ">> \o ParseIntError(patch)]
    ELSE [ver |-> << [value |-> value,
                      major |-> ParseInt(major).val,
                      minor |-> IF minor # <<>> THEN ParseInt(minor).val ELSE IntZero,
                      patch |-> IF patch # <<>> THEN ParseInt(patch).val ELSE IntZero] >>,
          err |-> Nil]

\* Variant of pipVersionOf that reads the patch from the last numeric
\* segment written; C16's property tells it from the original.
pipVersionOf_LastSegment(value, matches) ==
    IF ~matches.ok
    THEN [ver |-> Nil, err |-> <<"version '">> \o value \o <<"' is not supported">>]
    ELSE pipVersionSegments(value, matches.m[1], TrimPrefix(matches.m[2], Dot),
                            TrimPrefix(IF matches.m[4] # <<>> THEN matches.m[4]
                                       ELSE matches.m[3], Dot))

\* NewPipVersion from `matches`, the submatches of the lower-cased value
pipVersionOf(value, matches) ==
    IF ~matches.ok
    THEN [ver |-> Nil, err |-> <<"version '">> \o value \o <<"' is not supported">>]
    ELSE pipVersionSegments(value, matches.m[1], TrimPrefix(matches.m[2], Dot),
                               TrimPrefix(matches.m[3], Dot))

\* NewPipVersion(value): [ver |-> the Version or nil, err |-> the error or nil]
NewPipVersion(value) ==
    pipVersionOf(value, FindStringSubmatch(pipVersionRgx, ToLower(value)))

\* parsePipConstraint: the wildcard mark of a clause
pipWildcard(major, minor, patch) ==
    IF major = <<"*">> THEN wildcardMajor
    ELSE IF minor = <<"*">> \/ minor = <<>> THEN wildcardMinor
    ELSE IF patch = <<"*">> \/ patch = <<>> THEN wildcardPatch
    ELSE wildcardNone

\* parsePipConstraint: the raw version normalized to a fixed one
\* (suffix is matches[6], the pre-release part with its dash)
pipNormalized(rawVersion, major, minor, patch, suffix) ==
    IF major = <<"*">> THEN <<"0", ".", "0", ".", "0">>
    ELSE IF minor = <<"*">> \/ minor = <<>>
    THEN major \o <<".", "0", ".", "0">> \o suffix
    ELSE IF patch = <<"*">> \/ patch = <<>>
    THEN major \o Dot \o minor \o <<".", "0">> \o suffix
    ELSE rawVersion

\* parsePipConstraint: the clause, once its version vrs is parsed
pipConstraintBuild(operator, rawVersion, wildcard, vrs) ==
    IF vrs.err # Nil
    THEN [cc |-> Nil, err |-> <<"unable to parse version: ">> \o vrs.err]
    ELSE [cc  |-> << [compare  |-> OperatorFunc(pipOperators, operator),
                      operator |-> operator,
                      wildcard |-> wildcard,
                      raw      |-> rawVersion,
                      ver      |-> vrs.ver[1]] >>,
          err |-> Nil]

\* parsePipConstraint from `matches`, the submatches of c
pipConstraintOf(c, matches) ==
    IF ~matches.ok
    THEN [cc |-> Nil, err |-> <<"constraint not supported: ">> \o Quote(c)]
    ELSE pipConstraintBuild(
             matches.m[1], matches.m[2],
             pipWildcard(matches.m[3], TrimPrefix(matches.m[4], Dot),
                              TrimPrefix(matches.m[5], Dot)),
             NewPipVersion(
                 pipNormalized(matches.m[2], matches.m[3],
                                    TrimPrefix(matches.m[4], Dot),
                                    TrimPrefix(matches.m[5], Dot), matches.m[6])))

\* parsePipConstraint(c): [cc |-> the clause or nil, err |-> the error or nil]
parsePipConstraint(c) ==
    pipConstraintOf(c, FindStringSubmatch(pipConstraintsRgx, c))

\* the loop over the clauses in NewPipConstraints: ands[k] = *constraint for
\* every clause, or the first error
RECURSIVE pipParseAnds(_, _, _)
pipParseAndsStep(andsRaw, k, ands, constraint) ==
    IF constraint.err # Nil THEN [ands |-> <<>>, err |-> constraint.err]
    ELSE pipParseAnds(andsRaw, k + 1, Append(ands, constraint.cc[1]))

pipParseAnds(andsRaw, k, ands) ==
    IF k > Len(andsRaw) THEN [ands |-> ands, err |-> Nil]
    ELSE pipParseAndsStep(andsRaw, k, ands, parsePipConstraint(andsRaw[k]))

\* NewPipConstraints, once every clause is parsed
pipConstraintsOf(value, parsed) ==
    IF parsed.err # Nil THEN [con |-> Nil, err |-> parsed.err]
    ELSE [con |-> << [value |-> value, constraints |-> parsed.ands] >>, err |-> Nil]

\* NewPipConstraints(value): [con |-> the Constraints or nil, err |-> ...]
NewPipConstraints(value) ==
    pipConstraintsOf(value, pipParseAnds(Split(value, <<",">>), 1, <<>>))

\* pipConstraint.match: the clause's own compare function
pipConstraint_match(cct, v) ==
    CASE cct.compare = "pipConstraintEqual" -> pipConstraintEqual(v, cct)
      [] cct.compare = "pipConstraintArbitraryEqual" -> pipConstraintArbitraryEqual(v, cct)
      [] cct.compare = "pipConstraintNotEqual" -> pipConstraintNotEqual(v, cct)
      [] cct.compare = "pipConstraintGreaterThan" -> pipConstraintGreaterThan(v, cct)
      [] cct.compare = "pipConstraintLessThan" -> pipConstraintLessThan(v, cct)
      [] cct.compare = "pipConstraintGreaterThanEqual" -> pipConstraintGreaterThanEqual(v, cct)
      [] cct.compare = "pipConstraintLessThanEqual" -> pipConstraintLessThanEqual(v, cct)
      [] cct.compare = "pipConstraintTildeEqual" -> pipConstraintTildeEqual(v, cct)

\* Variant of pipAndMatches that is content with one matching clause; C2's
\* property tells it from the original.
RECURSIVE pipAndMatches_AnyClause(_, _, _)
pipAndMatches_AnyClause(constraints, k, ver) ==
    IF k > Len(constraints) THEN FALSE
    ELSE IF pipConstraint_match(constraints[k], ver) THEN TRUE
    ELSE pipAndMatches_AnyClause(constraints, k + 1, ver)

\* the loop of PipConstraints.Match, from clause k on
RECURSIVE pipAndMatches(_, _, _)
pipAndMatches(constraints, k, ver) ==
    IF k > Len(constraints) THEN TRUE
    ELSE IF ~pipConstraint_match(constraints[k], ver) THEN FALSE
    ELSE pipAndMatches(constraints, k + 1, ver)

\* PipConstraints.Match(ver)
PipConstraints_Match(cc, ver) == pipAndMatches(cc.constraints, 1, ver)

\* Variant of PipVersion_Match that decides on the first clause alone
\* instead of calling back; C3's property tells it from the original.
PipVersion_Match_FirstClause(cv, b) == pipConstraint_match(b.constraints[1], cv)

\* PipVersion.Match(b)
PipVersion_Match(cv, b) == PipConstraints_Match(b, cv)

\* PipConstraints.Value and PipVersion.Value
PipConstraints_Value(cc) == cc.value

PipVersion_Value(cv) == cv.value

(***************************************************************************)
(* The inputs the callers draw from                                        *)
(***************************************************************************)
\* the largest segment of the generated version strings a.b.c
MaxSeg == 2

\* the decimal text of n
RECURSIVE Numeral(_)
Numeral(n) ==
    IF n < 10 THEN <<DigitChars[n + 1]>>
    ELSE Numeral(n \div 10) \o <<DigitChars[(n % 10) + 1]>>

GenVersions ==
    {Numeral(a) \o Dot \o Numeral(b) \o Dot \o Numeral(c) :
        a \in 0..MaxSeg, b \in 0..MaxSeg, c \in 0..MaxSeg}

ExtraVersions ==
    { <<"1", ".", "3", ".", "2">>,
      <<"9", "8", ".", "1", ".", "3", "7", "6">>,
      <<"9", "8", ".", "2", ".", "3">>,
      <<"3", ".", "7">>,
      <<"3", ".", "7", ".", "0">>,
      <<"3", ".", "0", ".", "0">>,
      <<"3", ".", "9", ".", "9">>,
      <<"3", ".", "1", "7", ".", "0">>,
      <<"4", ".", "0", ".", "0">>,
      <<"2", ".", "3">>,
      <<"2", ".", "1">>,
      <<"3", ".", "0">>,
      <<"1", ".", "2", ".", "1", "9", "9">>,
      <<"1", ".", "2", ".", "3">>,
      <<"1", ".", "9", ".", "3">>,
      <<"1", ".", "1", ".", "3">>,
      <<"2", ".", "2", ".", "3">>,
      <<"0", ".", "3", ".", "9">>,
      <<"0", ".", "5", ".", "0">>,
      <<"v", "3">>,
      <<"3">>,
      <<"1", ".", "9", "2", "2", "3", "3", "7", "2", "0", "3", "6", "8", "5", "4", "7", "7", "5", "8", "0", "7", ".", "0">>,
      <<"9", "2", "2", "3", "3", "7", "2", "0", "3", "6", "8", "5", "4", "7", "7", "5", "8", "0", "7", ".", "2">>,
      <<"V", "1", ".", "2", ".", "3">>,
      <<"1", ".", "0", "-", "b", "e", "t", "a", "+", "b", ".", "1">>,
      <<"1", ".", "2", ".", "3", ".", "4">>,
      <<"h", "i", "1", ".", "2", ".", "3">>,
      <<"v", "1", ".", "2", ".", "3">>,
      <<"0", "1", ".", "0", "2", ".", "0", "3">>,
      <<" ", "1", ".", "2", ".", "3">>,
      <<"1", ".", "2", ".", "3", " ">>,
      <<"1", ".", "2", ".", "3", "\n">>,
      <<"9", "2", "2", "3", "3", "7", "2", "0", "3", "6", "8", "5", "4", "7", "7", "5", "8", "0", "8">>,
      <<"1", ".", "2", ".", "3", "-", "r", "c", ".", "1">>,
      <<"v", "1", ".", "2", ".", "3", ".", "4">>,
      <<"V", "0", "1", ".", "0", "2", "0", "-", "b", "e", "t", "a", "+", "b", ".", "1">>,
      <<"V", "1", ".", "0", "-", "R", "C", ".", "1", "+", "B">> }

VersionInputs == GenVersions \cup ExtraVersions

\* the segments of the generated clause references
RefSegs == {<<"0">>, <<"1">>}

\* references written as '*', M, M.m, M.m.p
GenRefs ==
    {<<"*">>}
    \cup RefSegs
    \cup {a \o Dot \o b : a \in RefSegs, b \in RefSegs}
    \cup {a \o Dot \o b \o Dot \o c : a \in RefSegs, b \in RefSegs, c \in RefSegs}

ExtraComposerConstraints ==
    { <<">", "=", "1", ".", "2", ".", "3", ",", "<", "=", "1", ".", "4", ".", "0", "|", "|", "9", "8", ".", "1", ".", "*">>,
      <<"!", "=", "3", ".", "7", ",", "3", ".", "7">>,
      <<"!", "=", "3", ".", "7", "|", "|", "3", ".", "7">>,
      <<"!", "=", "3", ".", "7", " ", "3", ".", "7">>,
      <<"3", ".", "*">>,
      <<"3">>,
      <<"v", "3">>,
      <<"~", "1", ".", "2">>,
      <<"~", "1", ".", "2", ".", "3">>,
      <<"^", "1", ".", "2", ".", "3">>,
      <<"^", "0", ".", "3">>,
      <<"~", "9", "2", "2", "3", "3", "7", "2", "0", "3", "6", "8", "5", "4", "7", "7", "5", "8", "0", "7", ".", "2">>,
      <<"1", ".", "*", ".", "3">>,
      <<"1", ".", "0", ".", "*">>,
      <<"~", "*">>,
      <<">", "=", "1", ".", "2", ".", "3", "|", "<", "=", "1", ".", "4", ".", "0">>,
      <<"3", ".", "x">>,
      <<">", "=", "1", ".", "0", "|", "|">>,
      <<>>,
      <<"3", ".", "X">>,
      <<"1", ".", "2", ".", "x">>,
      <<">", "=", "3", ".", "x">>,
      <<"1", ".", "*", ".", "3", "|", "2">>,
      <<"*", ".", "0", "|", "1", ".", "0">>,
      <<">", "=", "1", ".", "0", ",">>,
      <<",">>,
      <<">", "=", "9", "2", "2", "3", "3", "7", "2", "0", "3", "6", "8", "5", "4", "7", "7", "5", "8", "0", "8">>,
      <<" ", "1", ".", "0", " ">>,
      <<"=", "=", "1", ".", "0">>,
      <<"~", "=", "1", ".", "0">>,
      <<"1", ".", "0", "|", "|", "2", ".", "0", "|", "|">>,
      <<"v", "1", ".", "0">>,
      <<">", "=", "1", ".", "0", "-", "r", "c", ".", "1">>,
      <<">", "=", "1", ".", "2", ".", "3", "|", "|", "<", "=", "1", ".", "4", ".", "0", ",", " ", " ", "!", "=", "1", ".", "2", ".", "1", "7">>,
      <<"!", "=", "3", ".", "7", " ", " ", " ", " ", "3", ".", "7">>,
      <<"~", "1", ".", "*">>,
      <<"^", "2">>,
      <<"~", "0", ".", "*">>,
      <<"~", "2">> }

ExtraPipConstraints ==
    { <<">", "=", "1", ".", "2", ".", "3", ",", "<", "=", "v", "1", ".", "4", ".", "0">>,
      <<"!", "=", "3", ".", "7", ",", "3", ".", "7">>,
      <<"3", ".", "*">>,
      <<"=", "=", "3", ".", "*">>,
      <<"=", "=", " ", "3", ".", "7">>,
      <<"3">>,
      <<"=", "=", "v", "3">>,
      <<"=", "=", "=", "v", "3">>,
      <<"=", "=", "=", "3">>,
      <<"~", "=", "2", ".", "2">>,
      <<"~", "=", " ", "2", ".", "2">>,
      <<"~", "=", "1", ".", "2", ".", "3">>,
      <<"~", "=", "9", "2", "2", "3", "3", "7", "2", "0", "3", "6", "8", "5", "4", "7", "7", "5", "8", "0", "7", ".", "2">>,
      <<"1", ".", "*", ".", "3">>,
      <<"1", ".", "0", ".", "*">>,
      <<"~", "=", "*">>,
      <<">", "=", "1", ".", "2", ".", "3", "|", "|", "<", "=", "1", ".", "4", ".", "0">>,
      <<"3", ".", "x">>,
      <<"1", ".", "2", ".", "3", ".", "4">>,
      <<>>,
      <<"3", ".", "X">>,
      <<"1", ".", "2", ".", "x">>,
      <<">", "=", "3", ".", "x">>,
      <<"1", ".", "*", ".", "3", "|", "|", "2">>,
      <<">", "=", "1", ".", "0", ",">>,
      <<">", "=", "9", "2", "2", "3", "3", "7", "2", "0", "3", "6", "8", "5", "4", "7", "7", "5", "8", "0", "8">>,
      <<"=", "=", "=", "1", ".", "2", ".", "3">>,
      <<" ", ">", "=", " ", "1", ".", "0", " ">>,
      <<"^", "1", ".", "0">>,
      <<"=", "1", ".", "0">>,
      <<">", "=", "1", ".", "0", " ", "<", "2", ".", "0">>,
      <<"\t", ">", "=", "a">>,
      <<">", "=", "1", ".", "0", "-", "r", "c", ".", "1">>,
      <<">", "=", "1", ".", "2", ".", "3", ",", "<", "=", "1", ".", "4", ".", "0", ",", " ", " ", "!", "=", "1", ".", "2", ".", "1", "7">>,
      <<"1", ".", "*", ".", "3", "|", "2">>,
      <<"~", "=", "3">>,
      <<"~", "=", "1", ".", "*">>,
      <<"~", "=", "0", ".", "*">> }

ComposerConstraintInputs ==
    {composerOps[i] \o r : i \in 1..Len(composerOps), r \in GenRefs}
    \cup ExtraComposerConstraints

PipConstraintInputs ==
    {pipOps[i] \o r : i \in 1..Len(pipOps), r \in GenRefs}
    \cup ExtraPipConstraints

(***************************************************************************)
(* The state: one caller of one ecosystem's package, the values its calls  *)
(* returned.  <<>> stands for "not called yet".                            *)
(***************************************************************************)
VARIABLES
    eco,      \* "composer" or "pip": the package the caller uses
    vres,     \* <<>> or <<[value, ver, err]>>: NewXVersion(value) = (ver, err)
    cres,     \* <<>> or <<[value, con, err]>>: NewXConstraints(value) = (con, err)
    cmatch,   \* <<>> or <<b>>: con.Match(ver) = b
    vmatch    \* <<>> or <<b>>: ver.Match(con) = b

\* the state of the requirements.txt parser (package parsers)
VARIABLES
    file,     \* [b, err]: what fetcher.FileContent(SourceName) returns
    cons      \* <<>> or <<[res, err]>>: PipParser.Constraints() = (res, err)

\* the state of a paginated Packagist search (package packagist)
VARIABLES
    ps,        \* the FoundSearch the caller holds
    nextRet,   \* <<>> or <<[ok, err]>>: ps.Next(ctx) = (ok, err)
    requests   \* the pages asked of the registry since the FoundSearch exists

\* the state of an update check (package dephub)
VARIABLES
    registry,  \* what the registry answers for each package name
    asked,     \* the arguments of the call of the checker
    updates    \* <<>> or <<[res, err]>>: the call returned (res, err)

\* the state of the goroutines that call package versioneer at once
VARIABLES
    calls,     \* per goroutine: the call it is in and how far it got
    heap       \* the Versions and Constraints returned so far

versioneerVars == <<eco, ops, vres, cres, cmatch, vmatch>>
parserVars == <<file, cons>>
searchVars == <<ps, nextRet, requests>>
checkerVars == <<registry, asked, updates>>
goroutineVars == <<calls, heap>>

\* what the calls of package versioneer made by the one caller leave alone
outside == <<parserVars, searchVars, checkerVars, goroutineVars>>

vars == <<versioneerVars, parserVars, searchVars, checkerVars, goroutineVars>>

\* no requirements file is looked at
NoFile == file = [b |-> <<>>, err |-> <<>>] /\ cons = <<>>

\* no search was made
NoSearch == ps = <<>> /\ nextRet = <<>> /\ requests = <<>>

\* no update check is made
NoChecker == registry = <<>> /\ asked = <<>> /\ updates = <<>>

\* one caller only
NoGoroutines == calls = <<>> /\ heap = <<>>

\* s from its last element to its first
Reverse(s) == [i \in 1..Len(s) |-> s[Len(s) + 1 - i]]

\* the orders of the operator alternation that are explored: every pair of
\* tokens is tried in both orders
OpsOrders(tokens) == {tokens, Reverse(tokens)}

\* the package is initialised and nothing was called
Initialised ==
    /\ eco \in {"composer", "pip"}
    /\ ops \in OpsOrders(IF eco = "composer" THEN composerOps ELSE pipOps)
    /\ vres = <<>>
    /\ cres = <<>>
    /\ cmatch = <<>>
    /\ vmatch = <<>>

Init == Initialised /\ NoFile /\ NoSearch /\ NoChecker /\ NoGoroutines

\* what the caller keeps of a call: its argument and the pair it returned
VersionReturned(value, r) == [value |-> value, ver |-> r.ver, err |-> r.err]

ConstraintsReturned(value, r) == [value |-> value, con |-> r.con, err |-> r.err]

\* v, err := NewComposerVersion(value)
CallNewComposerVersion ==
    /\ eco = "composer"
    /\ vres = <<>>
    /\ \E value \in VersionInputs :
           vres' = <<VersionReturned(value, NewComposerVersion(value))>>
    /\ UNCHANGED <<eco, ops, cres, cmatch, vmatch>>
    /\ UNCHANGED outside

\* v, err := NewPipVersion(value)
CallNewPipVersion ==
    /\ eco = "pip"
    /\ vres = <<>>
    /\ \E value \in VersionInputs :
           vres' = <<VersionReturned(value, NewPipVersion(value))>>
    /\ UNCHANGED <<eco, ops, cres, cmatch, vmatch>>
    /\ UNCHANGED outside

\* c, err := NewComposerConstraints(value)
CallNewComposerConstraints ==
    /\ eco = "composer"
    /\ cres = <<>>
    /\ \E value \in ComposerConstraintInputs :
           cres' = <<ConstraintsReturned(value, NewComposerConstraints(value))>>
    /\ UNCHANGED <<eco, ops, vres, cmatch, vmatch>>
    /\ UNCHANGED outside

\* c, err := NewPipConstraints(value)
CallNewPipConstraints ==
    /\ eco = "pip"
    /\ cres = <<>>
    /\ \E value \in PipConstraintInputs :
           cres' = <<ConstraintsReturned(value, NewPipConstraints(value))>>
    /\ UNCHANGED <<eco, ops, vres, cmatch, vmatch>>
    /\ UNCHANGED outside

\* both parse calls returned without error
Parsed ==
    /\ vres # <<>> /\ vres[1].err = Nil
    /\ cres # <<>> /\ cres[1].err = Nil

\* b := c.Match(v)
CallConstraintsMatch ==
    /\ Parsed
    /\ cmatch = <<>>
    /\ cmatch' = IF eco = "composer"
                 THEN <<ComposerConstraints_Match(cres[1].con[1], vres[1].ver[1])>>
                 ELSE <<PipConstraints_Match(cres[1].con[1], vres[1].ver[1])>>
    /\ UNCHANGED <<eco, ops, vres, cres, vmatch>>
    /\ UNCHANGED outside

\* b := v.Match(c)
CallVersionMatch ==
    /\ Parsed
    /\ vmatch = <<>>
    /\ vmatch' = IF eco = "composer"
                 THEN <<ComposerVersion_Match(vres[1].ver[1], cres[1].con[1])>>
                 ELSE <<PipVersion_Match(vres[1].ver[1], cres[1].con[1])>>
    /\ UNCHANGED <<eco, ops, vres, cres, cmatch>>
    /\ UNCHANGED outside

Next ==
    \/ CallNewComposerVersion
    \/ CallNewPipVersion
    \/ CallNewComposerConstraints
    \/ CallNewPipConstraints
    \/ CallConstraintsMatch
    \/ CallVersionMatch

Spec == Init /\ [][Next]_vars

\* the same single caller under a second name: the confirmed properties
\* from C14 on are checked under this name, the earlier ones under Spec
ParseSpec == Init /\ [][Next]_vars

(***************************************************************************)
(* What the claims speak of                                                *)
(***************************************************************************)
\* the Version and the Constraints the two parse calls returned
Ver == vres[1].ver[1]
Con == cres[1].con[1]

\* the constraint was parsed without error
ConParsed == cres # <<>> /\ cres[1].err = Nil

\* the clauses of the parsed constraint, by OR-group (PIP has one group)
Groups == IF eco = "composer" THEN Con.constraints ELSE <<Con.constraints>>

\* the parsed constraint is one unary clause
SingleClause == ConParsed /\ Len(Groups) = 1 /\ Len(Groups[1]) = 1
Clause == Groups[1][1]

\* a version was matched against a constraint of one unary clause
SingleMatched == SingleClause /\ cmatch # <<>>

\* does clause cl match the version, decided by its own compare function
ClauseMatches(cl) ==
    IF eco = "composer" THEN composerConstraint_match(cl, Ver)
    ELSE pipConstraint_match(cl, Ver)

\* the state's clause, its reference and wildcard kept, under operator op
WithOp(op) ==
    ClauseMatches([Clause EXCEPT
        !.operator = op,
        !.compare = OperatorFunc(IF eco = "composer" THEN composerOperators
                                 ELSE pipOperators, op)])

\* the number of places where sep (of one or two characters) is written in s
Occurrences(s, sep) == Cardinality({i \in 1..Len(s) : HasPrefixAt(s, i, sep)})

\* (major, minor, patch) of a version
Triple(v) == <<v.major, v.minor, v.patch>>

\* a below b in lexicographic order: the first differing segment decides
LexLess(a, b) ==
    \E i \in 1..3 : IntLess(a[i], b[i]) /\ \A j \in 1..(i - 1) : a[j] = b[j]

ZeroTriple == <<IntZero, IntZero, IntZero>>

\* C1: ComposerConstraints.Match is true iff at least one '||'-separated
\* OR-group has every one of its unary clauses matching the version; the
\* constraint '>=1.2.3,<=1.4.0||98.1.*' matches 1.3.2 and 98.1.376 and does
\* not match 98.2.3.
C1_OrOverAnds ==
    (eco = "composer" /\ cmatch # <<>>) =>
        /\ Len(Con.constraints) = Occurrences(cres[1].value, <<"|", "|">>) + 1
        /\ cmatch[1] = (\E k \in 1..Len(Con.constraints) :
                           \A i \in 1..Len(Con.constraints[k]) :
                               ClauseMatches(Con.constraints[k][i]))
        /\ (cres[1].value = <<">", "=", "1", ".", "2", ".", "3", ",", "<", "=", "1", ".", "4", ".", "0", "|", "|", "9", "8", ".", "1", ".", "*">>) =>
               /\ (vres[1].value \in {<<"1", ".", "3", ".", "2">>, <<"9", "8", ".", "1", ".", "3", "7", "6">>}) => cmatch[1]
               /\ (vres[1].value = <<"9", "8", ".", "2", ".", "3">>) => ~cmatch[1]

\* the second OR-group alone accepts the version
C1_Witness ==
    /\ eco = "composer"
    /\ cres # <<>> /\ cres[1].value = <<">", "=", "1", ".", "2", ".", "3", ",", "<", "=", "1", ".", "4", ".", "0", "|", "|", "9", "8", ".", "1", ".", "*">>
    /\ vres # <<>> /\ vres[1].value = <<"9", "8", ".", "1", ".", "3", "7", "6">>
    /\ cmatch = <<TRUE>>

\* C2: PipConstraints.Match is true iff every ','-separated unary clause
\* matches the version; '!=3.7,3.7' matches no version 3.7.x.
C2_AllClauses ==
    (eco = "pip" /\ cmatch # <<>>) =>
        /\ Len(Con.constraints) = Occurrences(cres[1].value, <<",">>) + 1
        /\ cmatch[1] = (\A i \in 1..Len(Con.constraints) :
                           ClauseMatches(Con.constraints[i]))
        /\ (/\ cres[1].value = <<"!", "=", "3", ".", "7", ",", "3", ".", "7">>
            /\ Ver.major = <<"3">> /\ Ver.minor = <<"7">>) => ~cmatch[1]

\* the second clause matches, the first does not, and the whole does not
C2_Witness ==
    /\ eco = "pip"
    /\ cres # <<>> /\ cres[1].value = <<"!", "=", "3", ".", "7", ",", "3", ".", "7">>
    /\ vres # <<>> /\ vres[1].value = <<"3", ".", "7", ".", "0">>
    /\ cmatch = <<FALSE>>

\* C3: for a parsed version v and a parsed constraint c of one ecosystem,
\* v.Match(c) and c.Match(v) return the same boolean.
C3_Symmetry ==
    (cmatch # <<>> /\ vmatch # <<>>) => vmatch = cmatch

\* both calls were made on a constraint of several clauses
C3_Witness ==
    /\ cmatch # <<>> /\ vmatch = <<TRUE>>
    /\ \E k \in 1..Len(Groups) : Len(Groups[k]) > 1

\* the operators that mean "equal"
EqualOps == IF eco = "composer" THEN {<<>>} ELSE {<<>>, <<"=", "=">>}

\* C4: an equal clause matches, with no wildcard, iff major, minor and patch
\* equal the reference; with a major wildcard always; with a minor wildcard
\* iff the majors are equal; with a patch wildcard iff major and minor are
\* equal.  '3.*' matches 3.0.0, 3.9.9 and 3.17.0 and not 4.0.0.
C4_Equal ==
    (SingleMatched /\ Clause.operator \in EqualOps) =>
        /\ Clause.wildcard \in {wildcardNone, wildcardMajor, wildcardMinor, wildcardPatch}
        /\ Clause.wildcard = wildcardNone =>
               (cmatch[1] <=> Triple(Ver) = Triple(Clause.ver))
        /\ Clause.wildcard = wildcardMajor => cmatch[1]
        /\ Clause.wildcard = wildcardMinor =>
               (cmatch[1] <=> Ver.major = Clause.ver.major)
        /\ Clause.wildcard = wildcardPatch =>
               (cmatch[1] <=> (Ver.major = Clause.ver.major
                               /\ Ver.minor = Clause.ver.minor))
        /\ (cres[1].value = <<"3", ".", "*">>) =>
               /\ (vres[1].value \in {<<"3", ".", "0", ".", "0">>, <<"3", ".", "9", ".", "9">>, <<"3", ".", "1", "7", ".", "0">>}) => cmatch[1]
               /\ (vres[1].value = <<"4", ".", "0", ".", "0">>) => ~cmatch[1]

\* '==3.*' accepts 3.17.0, whose minor and patch differ from the reference
C4_Witness ==
    /\ eco = "pip" /\ SingleMatched
    /\ cres[1].value = <<"=", "=", "3", ".", "*">>
    /\ vres[1].value = <<"3", ".", "1", "7", ".", "0">>
    /\ cmatch = <<TRUE>>

\* C5: whatever the wildcard of the reference, '!=' matches iff the equal
\* clause with the same reference does not, '>=' iff the equal clause or
\* the '>' clause does, '<=' iff the equal clause or the '<' clause does.
C5_Derived ==
    SingleMatched =>
        /\ Clause.operator = <<"!", "=">> => (cmatch[1] <=> ~WithOp(<<>>))
        /\ Clause.operator = <<">", "=">> =>
               (cmatch[1] <=> (WithOp(<<>>) \/ WithOp(<<">">>)))
        /\ Clause.operator = <<"<", "=">> =>
               (cmatch[1] <=> (WithOp(<<>>) \/ WithOp(<<"<">>)))

\* '<=1' accepts a version that is equal by the wildcard and not below 1.0.0
C5_Witness ==
    /\ SingleMatched
    /\ Clause.operator = <<"<", "=">>
    /\ Clause.wildcard = wildcardMinor
    /\ WithOp(<<>>) /\ ~WithOp(<<"<">>)
    /\ Triple(Ver) # Triple(Clause.ver)
    /\ cmatch = <<TRUE>>

\* C6: '>' (resp. '<') matches iff the version's (major, minor, patch) is
\* above (resp. below) the reference's in lexicographic order, whatever the
\* wildcard; no version matches both.
C6_Strict ==
    SingleMatched =>
        /\ Clause.operator = <<">">> =>
               (cmatch[1] <=> LexLess(Triple(Clause.ver), Triple(Ver)))
        /\ Clause.operator = <<"<">> =>
               (cmatch[1] <=> LexLess(Triple(Ver), Triple(Clause.ver)))
        /\ ~(WithOp(<<">">>) /\ WithOp(<<"<">>))

\* '>1' accepts a version of major 1: the wildcard does not make it equal
C6_Witness ==
    /\ SingleMatched
    /\ Clause.operator = <<">">>
    /\ Clause.wildcard = wildcardMinor
    /\ Ver.major = Clause.ver.major
    /\ cmatch = <<TRUE>>

\* the tilde operator of the ecosystem
TildeOp == IF eco = "composer" THEN <<"~">> ELSE <<"~", "=">>

\* C7: for a tilde ('~', '~=') clause a version below the reference never
\* matches; one not below it always matches when the wildcard is major or
\* the reference is 0.0.0; otherwise, for a reference of full precision or
\* with a patch wildcard, it matches iff its major equals the reference's.
\* '~=2.2' matches 2.3, not 2.1 nor 3.0; '~1.2.3' matches 1.2.199, not 2.0.0.
C7_Tilde ==
    (SingleMatched /\ Clause.operator = TildeOp) =>
        /\ LexLess(Triple(Ver), Triple(Clause.ver)) => ~cmatch[1]
        /\ (/\ ~LexLess(Triple(Ver), Triple(Clause.ver))
            /\ (Clause.wildcard = wildcardMajor \/ Triple(Clause.ver) = ZeroTriple))
               => cmatch[1]
        /\ (/\ ~LexLess(Triple(Ver), Triple(Clause.ver))
            /\ Clause.wildcard \in {wildcardNone, wildcardPatch}
            /\ Triple(Clause.ver) # ZeroTriple)
               => (cmatch[1] <=> Ver.major = Clause.ver.major)
        /\ (cres[1].value = <<"~", "=", "2", ".", "2">>) =>
               /\ (vres[1].value = <<"2", ".", "3">>) => cmatch[1]
               /\ (vres[1].value \in {<<"2", ".", "1">>, <<"3", ".", "0">>}) => ~cmatch[1]
        /\ (cres[1].value = <<"~", "1", ".", "2", ".", "3">>) =>
               /\ (vres[1].value = <<"1", ".", "2", ".", "1", "9", "9">>) => cmatch[1]
               /\ (vres[1].value = <<"2", ".", "0", ".", "0">>) => ~cmatch[1]

\* C8: for a caret clause a version below the reference never matches; with
\* a major.minor reference (wildcard = patch) a version matches only if it
\* has the reference's major and minor; for every other reference the
\* result is that of the tilde clause with the same reference.  '^1.2.3'
\* matches 1.2.3 and 1.9.3, not 1.1.3 nor 2.2.3; '^0.3' matches 0.3.9, not
\* 0.5.0.
C8_Caret ==
    (eco = "composer" /\ SingleMatched /\ Clause.operator = <<"^">>) =>
        /\ LexLess(Triple(Ver), Triple(Clause.ver)) => ~cmatch[1]
        /\ Clause.wildcard = wildcardPatch =>
               (cmatch[1] => (Ver.major = Clause.ver.major
                              /\ Ver.minor = Clause.ver.minor))
        /\ Clause.wildcard # wildcardPatch => (cmatch[1] <=> WithOp(<<"~">>))
        /\ (cres[1].value = <<"^", "1", ".", "2", ".", "3">>) =>
               /\ (vres[1].value \in {<<"1", ".", "2", ".", "3">>, <<"1", ".", "9", ".", "3">>}) => cmatch[1]
               /\ (vres[1].value \in {<<"1", ".", "1", ".", "3">>, <<"2", ".", "2", ".", "3">>}) => ~cmatch[1]
        /\ (cres[1].value = <<"^", "0", ".", "3">>) =>
               /\ (vres[1].value = <<"0", ".", "3", ".", "9">>) => cmatch[1]
               /\ (vres[1].value = <<"0", ".", "5", ".", "0">>) => ~cmatch[1]

\* s without the white space at its two ends
TrimSpace(s) ==
    IF ScanWhile(s, 1, SpaceClass) > Len(s) THEN <<>>
    ELSE Sub(s, ScanWhile(s, 1, SpaceClass),
             CHOOSE j \in 1..Len(s) :
                 s[j] \notin SpaceClass /\ \A k \in (j + 1)..Len(s) : s[k] \in SpaceClass)

\* the literal text X of a clause written '===X'
ArbitraryText(c) == TrimSpace(Sub(TrimSpace(c), 4, Len(TrimSpace(c))))

\* C9: an arbitrary-equal clause '===X' matches iff the version's raw text
\* is, character for character, X.  '===v3' does not match '3.7.0' nor '3'
\* and matches 'v3'.
C9_ArbitraryEqual ==
    (eco = "pip" /\ SingleMatched /\ Clause.operator = <<"=", "=", "=">>) =>
        /\ cmatch[1] <=> (vres[1].value = ArbitraryText(cres[1].value))
        /\ (cres[1].value = <<"=", "=", "=", "v", "3">>) =>
               /\ (vres[1].value \in {<<"3", ".", "7", ".", "0">>, <<"3">>}) => ~cmatch[1]
               /\ (vres[1].value = <<"v", "3">>) => cmatch[1]

C9_Witness ==
    /\ eco = "pip" /\ SingleMatched
    /\ cres[1].value = <<"=", "=", "=", "v", "3">>
    /\ vres[1].value = <<"v", "3">>
    /\ cmatch = <<TRUE>>

\* the characters an operator is written with
OperatorChars == {"!", "=", "<", ">", "~", "^"}

\* the version part of a clause: c without its operator and white space
WrittenVersion(c) ==
    TrimSpace(Sub(TrimSpace(c), ScanWhile(TrimSpace(c), 1, OperatorChars),
                  Len(TrimSpace(c))))

\* the dot-separated segments a clause is written with, before any
\* pre-release or build suffix and after an optional 'v'
WrittenSegments(c) ==
    Split(Sub(TrimPrefix(WrittenVersion(c), <<"v">>), 1,
              ScanWhile(TrimPrefix(WrittenVersion(c), <<"v">>), 1,
                        Digits \cup {"*", "."}) - 1),
          Dot)

\* is segment i of segs (1 major, 2 minor, 3 patch) a '*' or omitted
IsWild(segs, i) == i > Len(segs) \/ segs[i] = <<"*">>

\* the wildcard mark the segments stand for
FirstWild(segs) ==
    IF \E i \in 1..3 : IsWild(segs, i)
    THEN (CHOOSE i \in 1..3 : IsWild(segs, i) /\ \A j \in 1..(i - 1) : ~IsWild(segs, j)) - 1
    ELSE wildcardNone

\* the reference the segments stand for: 0 from the first wildcard on
WrittenReference(segs) ==
    [i \in 1..3 |->
        IF \E j \in 1..i : IsWild(segs, j) THEN IntZero ELSE ParseInt(segs[i]).val]

\* C10: parsing a unary clause sets its wildcard to the first segment
\* (major, minor, patch) written as '*' or omitted, none if all three are
\* numbers, and its reference to the written segments with that segment
\* and every later one 0.  '1.*.3' gives minor and 1.0.0, '3' minor and
\* 3.0.0, '*' major and 0.0.0.
C10_Wildcard ==
    SingleClause =>
        /\ Clause.wildcard = FirstWild(WrittenSegments(cres[1].value))
        /\ Triple(Clause.ver) = WrittenReference(WrittenSegments(cres[1].value))
        /\ (cres[1].value = <<"1", ".", "*", ".", "3">>) =>
               (Clause.wildcard = wildcardMinor
                /\ Triple(Clause.ver) = <<<<"1">>, IntZero, IntZero>>)
        /\ (cres[1].value = <<"3">>) =>
               (Clause.wildcard = wildcardMinor
                /\ Triple(Clause.ver) = <<<<"3">>, IntZero, IntZero>>)
        /\ (cres[1].value = <<"*">>) =>
               (Clause.wildcard = wildcardMajor /\ Triple(Clause.ver) = ZeroTriple)

\* a patch written after a '*' minor is dropped
C10_Witness ==
    /\ SingleClause
    /\ cres[1].value = <<"1", ".", "*", ".", "3">>
    /\ Clause.wildcard = wildcardMinor
    /\ Triple(Clause.ver) = <<<<"1">>, IntZero, IntZero>>

\* the package's constraint parser and Match, by ecosystem
NewConstraints(value) ==
    IF eco = "composer" THEN NewComposerConstraints(value)
    ELSE NewPipConstraints(value)

ConstraintsMatch(con, ver) ==
    IF eco = "composer" THEN ComposerConstraints_Match(con, ver)
    ELSE PipConstraints_Match(con, ver)

\* the text s with '*' written for every 'x' and 'X'
XToStar(s) == [i \in 1..Len(s) |-> IF s[i] \in {"x", "X"} THEN "*" ELSE s[i]]

\* C11: a segment written 'x' or 'X' is a wildcard like '*': in both
\* ecosystems a constraint with such segments ('3.x', '3.X', '1.2.x') parses
\* whenever the same text with '*' does, and matches the same versions.
C11_XWildcard ==
    (/\ cres # <<>>
     /\ \E i \in 1..Len(cres[1].value) : cres[1].value[i] \in {"x", "X"}
     /\ NewConstraints(XToStar(cres[1].value)).err = Nil) =>
        /\ cres[1].err = Nil
        /\ cmatch # <<>> =>
               cmatch[1] = ConstraintsMatch(NewConstraints(XToStar(cres[1].value)).con[1], Ver)

\* the OR-groups an expression is written with: its '||' parts for
\* Composer, the whole expression for PIP
WrittenGroups(value) ==
    IF eco = "composer" THEN Split(value, <<"|", "|">>) ELSE <<value>>

\* the clauses a group is written with, the empty ones included
WrittenClauses(group) ==
    IF eco = "composer"
    THEN (IF \A i \in 1..Len(group) : group[i] = " " THEN <<group>>
          ELSE Split([i \in 1..Len(group) |-> IF group[i] = " " THEN "," ELSE group[i]],
                     <<",">>))
    ELSE Split(group, <<",">>)

\* the parser of one unary clause, by ecosystem
ParseClause(c) ==
    IF eco = "composer"
    THEN [cl |-> parseComposerConstraint(c).cc, err |-> parseComposerConstraint(c).err]
    ELSE [cl |-> parsePipConstraint(c).cc, err |-> parsePipConstraint(c).err]

\* C12: constraint parsing is all-or-nothing: an error comes with no
\* constraint, and an expression with an empty clause (an empty expression,
\* an empty OR-group, a trailing ',' or '||') or with a clause that does
\* not parse on its own returns an error.
C12_AllOrNothing ==
    cres # <<>> =>
        /\ (cres[1].err # Nil) => (cres[1].con = Nil)
        /\ (cres[1].err = Nil) => (cres[1].con # Nil)
        /\ (cres[1].value = <<>>) => (cres[1].err # Nil)
        /\ (\E k \in 1..Len(WrittenGroups(cres[1].value)) :
               \A i \in 1..Len(WrittenGroups(cres[1].value)[k]) :
                   WrittenGroups(cres[1].value)[k][i] \in {" ", ","})
               => (cres[1].err # Nil)
        /\ (cres[1].value # <<>>
            /\ cres[1].value[Len(cres[1].value)] \in {",", "|"})
               => (cres[1].err # Nil)
        /\ (\E k \in 1..Len(WrittenGroups(cres[1].value)) :
               \E i \in 1..Len(WrittenClauses(WrittenGroups(cres[1].value)[k])) :
                   /\ WrittenClauses(WrittenGroups(cres[1].value)[k])[i] # <<>>
                   /\ ParseClause(WrittenClauses(WrittenGroups(cres[1].value)[k])[i]).err # Nil)
               => (cres[1].err # Nil)

\* position i of s holds a '|' with no '|' next to it
SinglePipeAt(s, i) ==
    /\ s[i] = "|"
    /\ (i = 1 \/ s[i - 1] # "|")
    /\ (i = Len(s) \/ s[i + 1] # "|")

\* C13: a Composer expression with clauses joined by a single '|' and a PIP
\* expression with '||' fail to parse: the call returns an error and a nil
\* constraint ('>=1.2.3|<=1.4.0' for Composer, '>=1.2.3||<=1.4.0' for PIP).
C13_Separators ==
    cres # <<>> =>
        /\ (eco = "composer"
            /\ \E i \in 1..Len(cres[1].value) : SinglePipeAt(cres[1].value, i))
               => (cres[1].err # Nil /\ cres[1].con = Nil)
        /\ (eco = "pip" /\ Occurrences(cres[1].value, <<"|", "|">>) > 0)
               => (cres[1].err # Nil /\ cres[1].con = Nil)

\* the base-10 value of a run of digits: the run without its leading zeros
Base10(digits) ==
    IF ScanWhile(digits, 1, {"0"}) > Len(digits) THEN IntZero
    ELSE Sub(digits, ScanWhile(digits, 1, {"0"}), Len(digits))

\* a version text without its leading 'v' or 'V'
WithoutV(value) ==
    IF value # <<>> /\ value[1] \in {"v", "V"} THEN Sub(value, 2, Len(value))
    ELSE value

\* the dot-separated runs of digits t starts with
LeadingNumbers(t) == Split(Sub(t, 1, ScanWhile(t, 1, Digits \cup {"."}) - 1), Dot)

\* the dot-separated numeric segments a version text starts with, after the
\* optional 'v' and before any '-' or '+' suffix
NumericSegments(value) == LeadingNumbers(WithoutV(value))

\* the value of segment i of segs, 0 if the segment is absent
SegmentOf(segs, i) == IF i <= Len(segs) THEN Base10(segs[i]) ELSE IntZero

\* the values of the first three of the segments segs
FirstThree(segs) == <<SegmentOf(segs, 1), SegmentOf(segs, 2), SegmentOf(segs, 3)>>

\* C14: for every accepted version text, Major, Minor and Patch are the
\* base-10 values of its first three dot-separated numeric segments after
\* an optional 'v' or 'V', 0 for an absent segment, whatever '-' or '+'
\* suffix follows.  'v1.2.3' gives 1, 2, 3 and '3' gives 3, 0, 0.
C14_Segments ==
    (vres # <<>> /\ vres[1].err = Nil) =>
        /\ Triple(Ver) = FirstThree(NumericSegments(vres[1].value))
        /\ (vres[1].value = <<"v", "1", ".", "2", ".", "3">>) =>
               Triple(Ver) = <<<<"1">>, <<"2">>, <<"3">>>>
        /\ (vres[1].value = <<"3">>) =>
               Triple(Ver) = <<<<"3">>, IntZero, IntZero>>

\* a version with leading zeros, an absent patch and both suffixes
C14_Witness ==
    /\ vres # <<>> /\ vres[1].err = Nil
    /\ vres[1].value = <<"V", "0", "1", ".", "0", "2", "0", "-", "b", "e", "t", "a", "+", "b", ".", "1">>
    /\ Triple(Ver) = <<<<"1">>, <<"2", "0">>, IntZero>>

\* ids are non-empty identifiers [0-9A-Za-z-]+
IdentifiersOK(ids) ==
    \A i \in 1..Len(ids) :
        ids[i] # <<>> /\ \A j \in 1..Len(ids[i]) : ids[i][j] \in IdentClass

\* t is empty or the mark followed by a dot-separated list of identifiers
SuffixOK(t, mark) ==
    t = <<>> \/ (t[1] = mark /\ IdentifiersOK(Split(Sub(t, 2, Len(t)), Dot)))

\* the text after the leading digits and dots of t
AfterNumbers(t) == Sub(t, ScanWhile(t, 1, Digits \cup {"."}), Len(t))

\* the text after the numeric segments of a version text
AfterSegments(value) == AfterNumbers(WithoutV(value))

\* the most numeric segments a version of the ecosystem has
MaxVersionSegments == IF eco = "composer" THEN 3 ELSE 4

\* segs are one to three (PIP: four) non-empty runs of digits, and rest an
\* optional '-' pre-release followed by an optional '+' build suffix
GrammarParts(segs, rest) ==
    /\ Len(segs) \in 1..MaxVersionSegments
    /\ \A i \in 1..Len(segs) : segs[i] # <<>>
    /\ SuffixOK(Sub(rest, 1, ScanWhile(rest, 1, IdentClass \cup {"."}) - 1), "-")
    /\ SuffixOK(Sub(rest, ScanWhile(rest, 1, IdentClass \cup {"."}), Len(rest)), "+")

\* the whole text is a version of the grammar: optional 'v', the numeric
\* segments joined by dots, the optional suffixes
InVersionGrammar(value) ==
    GrammarParts(NumericSegments(value), AfterSegments(value))

\* C15: version parsing accepts only a text that is a version of the grammar
\* from its first to its last character; any other text ('hi1.2.3', a
\* version between spaces) gives an error and a nil version.
C15_WholeInput ==
    vres # <<>> =>
        /\ (vres[1].err = Nil) => (vres[1].ver # Nil /\ InVersionGrammar(vres[1].value))
        /\ (vres[1].err # Nil) => (vres[1].ver = Nil)
        /\ (vres[1].value \in {<<"h", "i", "1", ".", "2", ".", "3">>, <<" ", "1", ".", "2", ".", "3">>, <<"1", ".", "2", ".", "3", " ">>, <<"1", ".", "2", ".", "3", "\n">>})
               => (vres[1].err # Nil /\ vres[1].ver = Nil)

\* text before the version: an error and no version
C15_Witness ==
    /\ vres # <<>>
    /\ vres[1].value = <<"h", "i", "1", ".", "2", ".", "3">>
    /\ vres[1].err # Nil
    /\ vres[1].ver = Nil

\* the text is an optional 'v' and four non-empty numeric segments
FourSegments(value) ==
    /\ Len(NumericSegments(value)) = 4
    /\ \A i \in 1..4 : NumericSegments(value)[i] # <<>>
    /\ AfterSegments(value) = <<>>

\* a four-segment text without its fourth segment
WithoutFourth(value) ==
    Sub(value, 1, Len(value) - Len(NumericSegments(value)[4]) - 1)

\* a four-segment version was accepted by NewPipVersion with the values of
\* its first three segments, and rejected by NewComposerVersion
FourSegmentsParsed ==
    /\ eco = "composer" => (vres[1].err # Nil /\ vres[1].ver = Nil)
    /\ eco = "pip" =>
           /\ vres[1].err = Nil
           /\ Triple(Ver) = FirstThree(NumericSegments(vres[1].value))

\* the constraint accepts the four-segment version iff it accepts the
\* version written with the first three segments only
SameWithoutFourth ==
    cmatch[1] = PipConstraints_Match(Con, NewPipVersion(WithoutFourth(vres[1].value)).ver[1])

\* C16 as stated: a version of four numeric segments ('1.2.3.4') is rejected
\* by NewComposerVersion and accepted by NewPipVersion with major, minor
\* and patch from the first three; the fourth takes part in no comparison:
\* every constraint decides as for the three-segment version.
C16_FourthSegment_Stated ==
    (vres # <<>> /\ FourSegments(vres[1].value)) =>
        /\ FourSegmentsParsed
        /\ (eco = "pip" /\ cmatch # <<>>) => SameWithoutFourth

\* C16, amended: as above, the fourth segment taking part in no comparison
\* other than arbitrary equality: every constraint without a '===' clause
\* decides as for the three-segment version.
C16_FourthSegment ==
    (vres # <<>> /\ FourSegments(vres[1].value)) =>
        /\ FourSegmentsParsed
        /\ (/\ eco = "pip" /\ cmatch # <<>>
            /\ \A i \in 1..Len(Con.constraints) :
                   Con.constraints[i].operator # <<"=", "=", "=">>)
               => SameWithoutFourth

\* '~=1.2.3' accepts 1.2.3.4
C16_Witness ==
    /\ eco = "pip"
    /\ vres # <<>> /\ vres[1].value = <<"1", ".", "2", ".", "3", ".", "4">>
    /\ cres # <<>> /\ cres[1].value = <<"~", "=", "1", ".", "2", ".", "3">>
    /\ cmatch = <<TRUE>>

\* the operator table of the ecosystem
Operators == IF eco = "composer" THEN composerOperators ELSE pipOperators

\* C17: matching is total: every clause of a constraint parsed without
\* error carries the check function registered for its own operator, never
\* a missing one, and Match of the constraint and of the version return a
\* boolean for every version parsed without error.
C17_Total ==
    /\ ConParsed =>
           \A k \in 1..Len(Groups) : \A i \in 1..Len(Groups[k]) :
               /\ \E n \in 1..Len(Operators) :
                      /\ Operators[n].op = Groups[k][i].operator
                      /\ Operators[n].fn = Groups[k][i].compare
               /\ Groups[k][i].compare # "nil"
    /\ Parsed => ConstraintsMatch(Con, Ver) \in BOOLEAN
    /\ cmatch # <<>> => cmatch[1] \in BOOLEAN
    /\ vmatch # <<>> => vmatch[1] \in BOOLEAN

\* a clause without operator text carries the function registered under ""
C17_Witness ==
    /\ eco = "composer" /\ SingleMatched
    /\ Clause.operator = <<>>
    /\ Clause.compare = "composerConstraintEqual"
    /\ cmatch = <<FALSE>> /\ vmatch = <<FALSE>>

\* the operator a clause is written with: the operator characters its text
\* starts with
LeadingOperator(t) == Sub(t, 1, ScanWhile(t, 1, OperatorChars) - 1)

TextOperator(c) == LeadingOperator(TrimSpace(c))

\* the text after the operator of a clause
AfterOperator(t) == Sub(t, ScanWhile(t, 1, OperatorChars), Len(t))

TextReference(c) == AfterOperator(TrimSpace(c))

\* segs are one to three segments, each a number or '*'
PlainSegments(segs) ==
    /\ Len(segs) \in 1..3
    /\ \A i \in 1..Len(segs) :
           \/ segs[i] = <<"*">>
           \/ /\ segs[i] # <<>>
              /\ \A j \in 1..Len(segs[i]) : segs[i][j] \in Digits
              /\ ~IntLess(MaxInt64, Base10(segs[i]))

\* op is an operator of the ecosystem and ref a reference of plain segments
PlainReference(op, ref) ==
    /\ \E n \in 1..Len(Operators) : Operators[n].op = op
    /\ ref # <<>>
    /\ \A i \in 1..Len(ref) : ref[i] \in Digits \cup {".", "*"}
    /\ PlainSegments(Split(ref, Dot))

\* c is an operator of the ecosystem followed at once by one to three
\* segments, each a number or '*'
PlainClause(c) == PlainReference(TextOperator(c), TextReference(c))

\* C18: the operator of a unary clause is determined by the clause text
\* alone, in whatever order the operator alternatives are tried: a parsed
\* clause has the whole operator it is written with, never a shorter prefix
\* of it, and a clause written as an operator and a reference parses.
C18_OperatorUnique ==
    /\ SingleClause => Clause.operator = TextOperator(cres[1].value)
    /\ (cres # <<>> /\ PlainClause(cres[1].value)) =>
           /\ cres[1].err = Nil
           /\ SingleClause
           /\ Clause.operator = TextOperator(cres[1].value)

\* '<=' found although '<' is tried before it, '===' although '==' and
\* the empty operator are
C18_Witness ==
    /\ SingleClause
    /\ \E a, b \in 1..Len(ops) :
           /\ a < b
           /\ ops[b] = Clause.operator
           /\ ops[a] # <<>>
           /\ Len(ops[a]) < Len(ops[b])
           /\ Sub(ops[b], 1, Len(ops[a])) = ops[a]
    /\ ops[1] = <<>>

\* the clause tokens of the OR-groups k, k+1, ... of a Composer expression,
\* in the order NewComposerConstraints parses them
RECURSIVE ComposerTokens(_, _)
ComposerTokens(groups, k) ==
    IF k > Len(groups) THEN <<>>
    ELSE FieldsFunc(groups[k], {",", " "}) \o ComposerTokens(groups, k + 1)

\* the clause tokens of an expression, in the order they are parsed
Tokens(value) ==
    IF eco = "composer" THEN ComposerTokens(Split(value, <<"|", "|">>), 1)
    ELSE Split(value, <<",">>)

\* the first token of the expression that does not parse
OffendingToken(value) ==
    Tokens(value)[CHOOSE n \in 1..Len(Tokens(value)) :
                      /\ ParseClause(Tokens(value)[n]).err # Nil
                      /\ \A b \in 1..(n - 1) : ParseClause(Tokens(value)[b]).err = Nil]

\* the text tok is written, character for character, in the message err
Contains(err, tok) ==
    \E i \in 1..(Len(err) - Len(tok) + 1) : Sub(err, i, i + Len(tok) - 1) = tok

\* C19: every constraint parse error, whether the clause does not match
\* the grammar or its reference does not parse as a version, contains the
\* offending clause token exactly as written in the input.
C19_ErrorNamesToken ==
    (cres # <<>> /\ cres[1].err # Nil) =>
        Contains(cres[1].err, OffendingToken(cres[1].value))

\* Value() of the parsed version and of the parsed constraint
VersionValue ==
    IF eco = "composer" THEN ComposerVersion_Value(Ver) ELSE PipVersion_Value(Ver)

ConstraintsValue ==
    IF eco = "composer" THEN ComposerConstraints_Value(Con)
    ELSE PipConstraints_Value(Con)

\* C20: Value() returns the caller's text unchanged: for every accepted
\* version text, with its letter case and its leading 'v', and for every
\* accepted constraint text, with its white space and separators.
C20_Value ==
    /\ (vres # <<>> /\ vres[1].err = Nil) => VersionValue = vres[1].value
    /\ ConParsed => ConstraintsValue = cres[1].value

\* an upper-case version and a constraint with separators and spaces
C20_Witness ==
    /\ eco = "composer"
    /\ vres # <<>> /\ vres[1].value = <<"V", "1", ".", "0", "-", "R", "C", ".", "1", "+", "B">>
    /\ vres[1].err = Nil
    /\ VersionValue = <<"V", "1", ".", "0", "-", "R", "C", ".", "1", "+", "B">>
    /\ ConParsed
    /\ cres[1].value = <<">", "=", "1", ".", "2", ".", "3", "|", "|", "<", "=", "1", ".", "4", ".", "0", ",", " ", " ", "!", "=", "1", ".", "2", ".", "1", "7">>
    /\ ConstraintsValue = <<">", "=", "1", ".", "2", ".", "3", "|", "|", "<", "=", "1", ".", "4", ".", "0", ",", " ", " ", "!", "=", "1", ".", "2", ".", "1", "7">>

\* value with every maximal run of clause separators (commas and spaces)
\* written as sep
RECURSIVE Respell(_, _)
RespellFrom(value, sep, stop) ==
    Sub(value, 1, stop - 1)
        \o (IF stop > Len(value) THEN <<>>
            ELSE sep \o Respell(Sub(value, ScanWhile(value, stop, {",", " "}),
                                    Len(value)), sep))

Respell(value, sep) ==
    RespellFrom(value, sep, ScanWhile(value, 1, Range(value) \ {",", " "}))

\* the separators the claim names: a comma, one space, a run of spaces
Separators == {<<",">>, <<" ">>, <<" ", " ", " ", " ">>}

\* the parsed clauses and the match of the Composer constraint respelled
SameAsRespelled(other) ==
    /\ (other.err = Nil) = (cres[1].err = Nil)
    /\ other.err = Nil =>
           /\ other.con[1].constraints = Con.constraints
           /\ cmatch # <<>> =>
                  cmatch[1] = ComposerConstraints_Match(other.con[1], Ver)

\* C21: inside a Composer OR-group the clauses may be separated by a comma,
\* by one space or by a run of spaces: each spelling parses to the same
\* clauses (or fails alike) and matches exactly the same versions;
\* '!=3.7,3.7', '!=3.7 3.7' and '!=3.7    3.7' all reject 3.7.0.
C21_Spellings ==
    (/\ eco = "composer" /\ cres # <<>>
     /\ Range(cres[1].value) \cap {",", " "} # {}) =>
        /\ \A sep \in Separators :
               SameAsRespelled(NewComposerConstraints(Respell(cres[1].value, sep)))
        /\ (/\ cres[1].value \in {<<"!", "=", "3", ".", "7", ",", "3", ".", "7">>, <<"!", "=", "3", ".", "7", " ", "3", ".", "7">>, <<"!", "=", "3", ".", "7", " ", " ", " ", " ", "3", ".", "7">>}
            /\ vres # <<>> /\ vres[1].value = <<"3", ".", "7", ".", "0">>
            /\ cmatch # <<>>) => cmatch[1] = FALSE

C21_Witness ==
    /\ eco = "composer"
    /\ cres # <<>> /\ cres[1].value = <<"!", "=", "3", ".", "7", " ", " ", " ", " ", "3", ".", "7">>
    /\ Respell(cres[1].value, <<",">>) = <<"!", "=", "3", ".", "7", ",", "3", ".", "7">>
    /\ vres # <<>> /\ vres[1].value = <<"3", ".", "7", ".", "0">>
    /\ cmatch = <<FALSE>>

\* the operators of the tilde family: '~' and '^' (Composer), '~=' (PIP)
TildeFamily == {<<"~">>, <<"^">>, <<"~", "=">>}

\* C25: a tilde, tilde-equal or caret clause whose reference is written with
\* only a major segment (wildcard = minor: '~1', '^2', '~=3', '~1.*')
\* matches no version when that major is not 0, not even versions with that
\* major; with major 0 ('~0', '^0') it matches every version.
C25_MajorOnly ==
    (/\ SingleMatched
     /\ Clause.operator \in TildeFamily
     /\ Clause.wildcard = wildcardMinor) =>
        cmatch[1] = (Clause.ver.major = IntZero)

C25_Witness ==
    /\ SingleMatched
    /\ cres[1].value = <<"~", "1">>
    /\ Clause.wildcard = wildcardMinor
    /\ vres[1].value = <<"1", ".", "0", ".", "0">>
    /\ cmatch = <<FALSE>>

\* the text of the parsed version, used as a constraint with no operator
AsConstraint(c) == c.err = Nil /\ ConstraintsMatch(c.con[1], Ver)

\* C26: every string accepted as a version by NewComposerVersion (resp.
\* NewPipVersion) is also accepted, written as a constraint with no
\* operator, by NewComposerConstraints (resp. NewPipConstraints), and that
\* constraint matches the version parsed from the same string.
C26_VersionAsConstraint ==
    (vres # <<>> /\ vres[1].err = Nil /\ cres = <<>>) =>
        AsConstraint(NewConstraints(vres[1].value))

\* the versions the '<', equality and '>' clauses on the state's reference
\* match: how many of the three match the state's version
Among(lt, eq, gt) ==
    (IF lt THEN 1 ELSE 0) + (IF eq THEN 1 ELSE 0) + (IF gt THEN 1 ELSE 0)

\* C27: for a clause reference written with all three numeric segments
\* (wildcard = none) every version satisfies exactly one of the '<', equal
\* and '>' clauses on that reference; so '>=' matches exactly the versions
\* that '<' rejects and '<=' exactly those that '>' rejects.
C27_Trichotomy ==
    (SingleMatched /\ Clause.wildcard = wildcardNone) =>
        /\ Among(WithOp(<<"<">>), WithOp(<<>>), WithOp(<<">">>)) = 1
        /\ WithOp(<<">", "=">>) = ~WithOp(<<"<">>)
        /\ WithOp(<<"<", "=">>) = ~WithOp(<<">">>)

C27_Witness ==
    /\ SingleMatched
    /\ cres[1].value = <<">", "=", "1", ".", "0", ".", "1">>
    /\ Clause.wildcard = wildcardNone
    /\ vres[1].value = <<"1", ".", "0", ".", "2">>
    /\ cmatch = <<TRUE>>
    /\ ~WithOp(<<"<">>) /\ ~WithOp(<<>>) /\ WithOp(<<">">>)

(***************************************************************************)
(* Package parsers: the requirements.txt parser                            *)
(***************************************************************************)
\* strings.Contains(s, substr)
StringsContains(s, substr) == \E i \in 1..(Len(s) + 1) : HasPrefixAt(s, i, substr)

\* dropCR of bufio.ScanLines
DropCR(line) ==
    IF Len(line) > 0 /\ line[Len(line)] = "\r" THEN Sub(line, 1, Len(line) - 1)
    ELSE line

\* the tokens bufio.NewScanner(bytes.NewReader(b)) yields: the lines of b
\* without their end-of-line marker
ScanLines(b) ==
    LET parts == Split(b, <<"\n">>)
        \* no final token when no byte is left after the last newline
        tokens == IF parts[Len(parts)] = <<>> THEN Sub(parts, 1, Len(parts) - 1)
                  ELSE parts
    IN  [i \in DOMAIN tokens |-> DropCR(tokens[i])]

\* stripSpaces: unicode.IsSpace is SpaceClass on the characters the inputs
\* are written with
stripSpaces(str) == SelectSeq(str, LAMBDA ch : ch \notin SpaceClass)

delimeters == <<<<"=", "=", "=">>, <<"=", "=">>, <<">", "=">>, <<"<", "=">>, <<"<">>, <<">">>, <<"~", "=">>, <<"!", "=">>>>

\* the lines parseRequirementsTxt steps over
SkippedLine(line) ==
    \/ HasPrefixAt(line, 1, <<"#">>)
    \/ HasPrefixAt(line, 1, <<"-", "r">>)
    \/ StringsContains(line, <<"/">>)
    \/ StringsContains(line, <<";">>)

\* the 'for _, delim := range delimeters' loop from delimiter k on, pkg and
\* version as they stand
RECURSIVE requirementFrom(_, _, _, _)
requirementFrom(line, k, pkg, version) ==
    IF k > Len(delimeters) THEN [pkg |-> pkg, version |-> version]
    ELSE IF StringsContains(line, delimeters[k])
    THEN [pkg     |-> Split(line, delimeters[k])[1],
          version |-> delimeters[k] \o Split(line, delimeters[k])[2]]
    ELSE requirementFrom(line, k + 1, pkg, version)

\* result[pkg] = version
MapStore(result, entry) ==
    {e \in result : e.pkg # entry.pkg} \cup {entry}

\* one round of the scanner loop on the stripped line
requirementsLine(result, line) ==
    IF SkippedLine(line) THEN result
    ELSE MapStore(result,
                  requirementFrom(Split(line, <<"#">>)[1], 1, line, <<"*">>))

\* parseRequirementsTxt from line i on: the map as a set of [pkg, version]
RECURSIVE requirementsFrom(_, _, _)
requirementsFrom(lines, i, result) ==
    IF i > Len(lines) THEN result
    ELSE IF lines[i] = <<>> THEN requirementsFrom(lines, i + 1, result)
    ELSE requirementsFrom(lines, i + 1,
                          requirementsLine(result, stripSpaces(lines[i])))

parseRequirementsTxt(fileContent) ==
    requirementsFrom(ScanLines(fileContent), 1, {})

\* the orders in which 'for k, v := range reqs' may visit the map
MapOrders(m) ==
    {order \in [1..Cardinality(m) -> m] :
        \A i, j \in 1..Cardinality(m) : order[i] = order[j] => i = j}

\* the errors of packages fetchers and parsers
fetchersErrFileNotFound == <<"dependency file not found">>
parsersErrFileNotFound == <<"file not found">>
fetchersErrNotAFile == <<"parameter is a directory or not a valid file">>

\* Constraint{Name: k, Version: v}
ConstraintOf(entry) == [Name |-> entry.pkg, Version |-> entry.version]

\* what PipParser.Constraints returns when the map is visited in this order
PipParser_Constraints(fetched, order) ==
    IF fetched.err # Nil
    THEN IF fetched.err = fetchersErrFileNotFound
         THEN [res |-> <<>>, err |-> parsersErrFileNotFound]
         ELSE [res |-> <<>>,
               err |-> <<"unable to fetch python(pip) dependencies from the source: ">>
                           \o fetched.err]
    ELSE [res |-> << [i \in DOMAIN order |-> ConstraintOf(order[i])] >>,
          err |-> Nil]

\* the largest number of lines of a requirements file
MaxLines == 2

\* lines of the test fixtures and lines with several specifiers
LineInputs ==
    { <<"h", "o", "s", "e">>,
      <<"d", "o", "c", "o", "p", "t", " ", "=", "=", " ", "0", ".", "6", ".", "1", " ", " ", " ", " ", " ", "#", " ", "V", "e", "r", "s", "i", "o", "n", " ", "M", "a", "t", "c", "h", "i", "n", "g">>,
      <<"k", "e", "y", "r", "i", "n", "g", " ", ">", "=", " ", "4", ".", "1", ".", "1">>,
      <<"c", "o", "v", "e", "r", "a", "g", "e", " ", "!", "=", " ", "3", ".", "5">>,
      <<"M", "o", "p", "i", "d", "y", "-", "D", "i", "r", "b", "l", "e", " ", "~", "=", " ", "1", ".", "1">>,
      <<"-", "r", " ", "o", "t", "h", "e", "r", "-", "r", "e", "q", "u", "i", "r", "e", "m", "e", "n", "t", "s", ".", "t", "x", "t">>,
      <<".", "/", "d", "o", "w", "n", "l", "o", "a", "d", "s", "/", "n", "u", "m", "p", "y", "-", "1", ".", "9", ".", "2", ".", "w", "h", "l">>,
      <<"#", " ", "c", "o", "m", "m", "e", "n", "t">>,
      <<>>,
      <<"\t">>,
      <<"t", "e", "s", "t", "i", "n", "g", "-", "t", "e", "s", "t", ">", "=", "2", ".", "4", ".", "2", ",", "<", "3", ".", "1", "7", ".", "6">>,
      <<"p", "k", "g", "<", "2", ".", "0", ",", ">", "=", "1", ".", "0">>,
      <<"p", "k", "g", "=", "=", "=", "1", ".", "0">>,
      <<"p", "k", "g", "<", "=", "2", ".", "0", "\r">>,
      <<"p", "k", "g", ">", "=", "1", ".", "0", ",", ">", "=", "2", ".", "0">>,
      <<"h", "o", "s", "e", " ", "#", " ", "a", "n", "y">>,
      <<"p", "k", "g", "=", "=", "1", ".", "0", ";", "p", "y", "t", "h", "o", "n", "_", "v", "e", "r", "s", "i", "o", "n", "<", "'", "3", "'">> }

\* the files of at most n lines, each line ended by a line feed
RECURSIVE FilesOf(_)
FilesOf(n) ==
    IF n = 0 THEN {<<>>}
    ELSE FilesOf(n - 1)
         \cup {b \o l \o <<"\n">> : b \in FilesOf(n - 1), l \in LineInputs}

\* what the fetcher returns: the bytes of a file or an error
FileInputs ==
    {[b |-> b, err |-> Nil] : b \in FilesOf(MaxLines)}
    \cup {[b |-> <<>>, err |-> e] : e \in {fetchersErrFileNotFound, fetchersErrNotAFile}}

ParserInit ==
    /\ eco = "pip"
    /\ ops = pipOps
    /\ vres = <<>> /\ cres = <<>> /\ cmatch = <<>> /\ vmatch = <<>>
    /\ NoSearch /\ NoChecker /\ NoGoroutines
    /\ file \in FileInputs
    /\ cons = <<>>

\* res, err := PipParser.Constraints(ctx)
CallPipParserConstraints ==
    /\ cons = <<>>
    /\ \E order \in MapOrders(parseRequirementsTxt(file.b)) :
           cons' = <<PipParser_Constraints(file, order)>>
    /\ UNCHANGED <<file, versioneerVars, searchVars, checkerVars, goroutineVars>>

ParserNext == CallPipParserConstraints

ParserSpec == ParserInit /\ [][ParserNext]_vars

\* the lines of the file the parser reads an entry from, spaces stripped
TextLines == ScanLines(file.b)
Stripped(i) == stripSpaces(TextLines[i])
EntryLine(i) == TextLines[i] # <<>> /\ ~SkippedLine(Stripped(i))

\* the line without its comment
Uncommented(i) == Split(Stripped(i), <<"#">>)[1]

\* the place of the first version specifier written in t, 0 when it has none
FirstSpecifier(t) ==
    IF \E p \in 1..Len(t) : \E k \in DOMAIN delimeters : HasPrefixAt(t, p, delimeters[k])
    THEN CHOOSE p \in 1..Len(t) :
             /\ \E k \in DOMAIN delimeters : HasPrefixAt(t, p, delimeters[k])
             /\ \A q \in 1..(p - 1) :
                    \A k \in DOMAIN delimeters : ~HasPrefixAt(t, q, delimeters[k])
    ELSE 0

\* Name and Version of a line t whose first specifier starts at p
Specified(t, p) == [Name |-> Sub(t, 1, p - 1), Version |-> Sub(t, p, Len(t))]

\* the name a line is listed under
ListedName(t) == IF FirstSpecifier(t) = 0 THEN t ELSE Sub(t, 1, FirstSpecifier(t) - 1)

\* no later line of the file is listed under the name of line i
LastOfName(i) ==
    \A j \in (i + 1)..Len(TextLines) :
        EntryLine(j) => ListedName(Uncommented(j)) # ListedName(Uncommented(i))

\* the constraints PipParser.Constraints returned
Listed == Range(cons[1].res[1])

\* C29: for a requirements.txt line with one or several comma-separated
\* version specifiers PipParser.Constraints yields Name = the text before the
\* first specifier of the line and Version = the whole specifier list from
\* that first operator on, whatever the order of the operators
\* ('pkg<2.0,>=1.0' yields Name 'pkg', Version '<2.0,>=1.0'); a line with no
\* specifier yields Version '*'.
C29_FirstSpecifier ==
    (cons # <<>> /\ cons[1].err = Nil) =>
        \A i \in DOMAIN TextLines :
            (EntryLine(i) /\ LastOfName(i)) =>
                IF FirstSpecifier(Uncommented(i)) = 0
                THEN \E c \in Listed :
                         /\ c.Version = <<"*">>
                         /\ HasPrefixAt(c.Name, 1, Uncommented(i))
                ELSE Specified(Uncommented(i), FirstSpecifier(Uncommented(i)))
                         \in Listed

(***************************************************************************)
(* Package packagist: the paginated search                                 *)
(***************************************************************************)
\* the number of result pages the registry holds for the query, and the
\* largest page number a FoundSearch is stepped to
MaxPages == 3

\* the address of result page p of the query q
SearchURL(q, p) == <<"/search.json?page=">> \o Numeral(p) \o <<"&q=">> \o q

\* the body the registry answers when asked page p of q (no page asked: the
\* first): one result per page, the address of the following page if any
SearchAnswer(q, p) ==
    IF p > MaxPages THEN [results |-> <<>>, total |-> MaxPages, next |-> <<>>]
    ELSE [results |-> <<Numeral(IF p = 0 THEN 1 ELSE p)>>,
          total   |-> MaxPages,
          next    |-> IF (IF p = 0 THEN 1 ELSE p) < MaxPages
                      THEN SearchURL(q, (IF p = 0 THEN 1 ELSE p) + 1)
                      ELSE <<>>]

\* how a request may end: answered, not sent (nil context), failed on the
\* way, refused by the registry
Outcomes == {"answered", "nil context", "unreachable", "HTTP error"}

\* parseResponse and http.NewRequestWithContext: the error of an outcome
SearchError(outcome) ==
    CASE outcome = "nil context" -> <<"unable to create a request: ", "net/http: nil Context">>
      [] outcome = "unreachable" -> <<"unable to send a request: ", "connection refused">>
      [] outcome = "HTTP error" ->
             <<"packagist responded with HTTP error '", "500: Internal Server Error", "'">>
      [] OTHER -> Nil

\* PackagistClient.Search(ctx, q, opts): [pl |-> the FoundSearch or nil,
\* err, sent |-> was the request sent]
Search(client, q, opts, outcome) ==
    IF q = <<>>
    THEN [pl |-> <<>>, sent |-> FALSE,
          err |-> <<"'q' option is required for search request">>]
    ELSE IF outcome # "answered"
    THEN [pl |-> <<>>, sent |-> outcome # "nil context", err |-> SearchError(outcome)]
    ELSE [pl |-> << [Results |-> SearchAnswer(q, opts.Page).results,
                     Total   |-> SearchAnswer(q, opts.Page).total,
                     NextURL |-> SearchAnswer(q, opts.Page).next,
                     q       |-> q,
                     opts    |-> opts,
                     client  |-> client] >>,
          sent |-> TRUE, err |-> Nil]

\* ps.opts.Page++
PageStepped(s) == [s EXCEPT !.opts.Page = @ + 1]

\* FoundSearch.Next once the next page was asked for: [ps |-> the struct
\* afterwards, ok, err]
FoundSearch_NextOf(stepped, found) ==
    IF found.err # Nil \/ stepped.NextURL = <<>>
    THEN [ps |-> stepped, ok |-> FALSE, err |-> found.err]
    ELSE [ps |-> found.pl[1], ok |-> TRUE, err |-> Nil]

\* FoundSearch.Next(ctx): [ps, ok, err, sent]
FoundSearch_Next(s, outcome) ==
    IF s.NextURL = <<>>
    THEN [ps |-> s, ok |-> FALSE, err |-> Nil, sent |-> FALSE]
    ELSE [ps   |-> FoundSearch_NextOf(PageStepped(s),
                       Search(s.client, s.q, PageStepped(s).opts, outcome)).ps,
          ok   |-> FoundSearch_NextOf(PageStepped(s),
                       Search(s.client, s.q, PageStepped(s).opts, outcome)).ok,
          err  |-> FoundSearch_NextOf(PageStepped(s),
                       Search(s.client, s.q, PageStepped(s).opts, outcome)).err,
          sent |-> Search(s.client, s.q, PageStepped(s).opts, outcome).sent]

\* the FoundSearch values a caller starts from: returned by Search for a
\* first page, or built by hand as the tests do
SearchInputs ==
    {[Results |-> r, Total |-> t, NextURL |-> n, q |-> q,
      opts |-> [PerPage |-> 0, Page |-> p], client |-> "client"] :
        r \in {<<>>, <<Numeral(1)>>},
        t \in {0, MaxPages},
        n \in {<<>>, SearchURL(<<"h", "e", "l", "l", "o">>, 2), <<"h", "t", "t", "p", ":", "/", "/", "e", "x", "a", "m", "p", "l", "e", ".", "c", "o", "m">>},
        q \in {<<>>, <<"h", "e", "l", "l", "o">>},
        p \in {0, 1}}

SearchInit ==
    /\ eco = "composer"
    /\ ops = composerOps
    /\ vres = <<>> /\ cres = <<>> /\ cmatch = <<>> /\ vmatch = <<>>
    /\ NoFile /\ NoChecker /\ NoGoroutines
    /\ ps \in SearchInputs
    /\ nextRet = <<>>
    /\ requests = <<>>

\* ok, err := ps.Next(ctx)
CallNext ==
    /\ ps.opts.Page < MaxPages
    /\ \E outcome \in Outcomes :
           /\ ps' = FoundSearch_Next(ps, outcome).ps
           /\ nextRet' = << [ok  |-> FoundSearch_Next(ps, outcome).ok,
                             err |-> FoundSearch_Next(ps, outcome).err] >>
           /\ requests' = IF FoundSearch_Next(ps, outcome).sent
                          THEN Append(requests, ps'.opts.Page)
                          ELSE requests
    /\ UNCHANGED <<versioneerVars, parserVars, checkerVars, goroutineVars>>

SearchNext == CallNext

SearchSpec == SearchInit /\ [][SearchNext]_vars

\* C30: a call of FoundSearch.Next that returns false, because NextURL is
\* empty or because fetching the next page failed, leaves every field of the
\* FoundSearch unchanged, the page number the following call will request
\* included; only a call returning true replaces the results and advances
\* the page.
C30_FalseKeeps ==
    [][/\ nextRet'[1].ok = FALSE => ps' = ps
       /\ nextRet'[1].ok = TRUE => ps'.opts.Page = ps.opts.Page + 1]_vars

(***************************************************************************)
(* Package dephub: the update checkers                                     *)
(***************************************************************************)

\* fmt.Errorf("no packages provided")
ErrNoPackages == <<"no packages provided">>

\* an Update with the zero value in every field
ZeroUpdate ==
    [Version |-> <<>>, Name |-> <<>>, Author |-> <<>>, URL |-> <<>>,
     CurrentVersion |-> <<>>, CurrentConstraint |-> <<>>]

\* the PackageMeta the registry lists under a name: one VersionMeta per
\* release, in the order of the registry's answer
PackageMetaOf(name, entry) ==
    [i \in DOMAIN entry.releases |->
        [Name |-> name, Version |-> entry.releases[i],
         Authors |-> entry.authors, URL |-> entry.url]]

\* getPackagistMeta(ctx, cl, pkg), PackagistClient.Meta included: [meta, err]
getPackagistMeta(reg, pkg) ==
    LET pkgNamePrts == Split(pkg, <<"/">>)
    IN IF Len(pkgNamePrts) # 2
       THEN [meta |-> <<>>,
             err |-> <<"cannot parse vendor from package name ">> \o Quote(pkg)]
       ELSE IF pkgNamePrts[1] = <<>> \/ pkgNamePrts[2] = <<>>
       THEN [meta |-> <<>>,
             err |-> <<"'package' and 'vendor' options are required for meta request">>]
       ELSE IF pkg \in DOMAIN reg /\ reg[pkg].status = "unreachable"
       THEN [meta |-> <<>>,
             err |-> <<"unable to send a request: ", "connection refused">>]
       ELSE IF pkg \notin DOMAIN reg \/ reg[pkg].status = "unknown"
       THEN [meta |-> <<>>,
             err |-> <<"package ">> \o Quote(pkg) \o <<" not found on packagist">>]
       ELSE [meta |-> PackageMetaOf(pkg, reg[pkg]), err |-> Nil]

composerVersionToUpdate(release) ==
    [ZeroUpdate EXCEPT
        !.Name = release.Name,
        !.URL = release.URL,
        !.Version = release.Version,
        !.Author = IF Len(release.Authors) # 0 THEN release.Authors[1]
                   ELSE release.Name]

\* the loop of compatibleReleases from release i down, the two constraints
\* parsed
RECURSIVE compatibleFrom(_, _, _, _, _, _, _, _, _)
compatibleFrom(meta, i, baseCst, reqCst, constraint, req, updatable, first, releases) ==
    IF i < 1 THEN releases
    ELSE LET vers == NewComposerVersion(meta[i].Version)
             include ==
                 /\ ComposerConstraints_Match(reqCst, vers.ver[1])
                 /\ updatable => ComposerConstraints_Match(baseCst, vers.ver[1])
             update == [composerVersionToUpdate(meta[i]) EXCEPT
                           !.CurrentVersion = req.Version,
                           !.CurrentConstraint = constraint.Version]
         IN IF vers.err # Nil \/ ~include
            THEN compatibleFrom(meta, i - 1, baseCst, reqCst, constraint, req,
                                updatable, first, releases)
            ELSE IF first THEN Append(releases, update)
            ELSE compatibleFrom(meta, i - 1, baseCst, reqCst, constraint, req,
                                updatable, first, Append(releases, update))

\* every release above the locked version, whatever the constraint
compatibleReleases_AnyNewer(constraint, req, updatable, first, meta) ==
    LET reqCst == NewComposerConstraints(<<">">> \o req.Version)
    IN IF Len(meta) = 0 \/ reqCst.err # Nil
       THEN [releases |-> <<>>, err |-> <<"meta info is empty">>]
       ELSE [releases |-> compatibleFrom(meta, Len(meta), reqCst.con[1],
                              reqCst.con[1], constraint, req, FALSE, first, <<>>),
             err |-> Nil]

\* compatibleReleases(constraint, req, updatable, first, meta): [releases, err]
compatibleReleases(constraint, req, updatable, first, meta) ==
    LET baseCst == NewComposerConstraints(constraint.Version)
        reqCst  == NewComposerConstraints(<<">">> \o req.Version)
    IN IF Len(meta) = 0 THEN [releases |-> <<>>, err |-> <<"meta info is empty">>]
       ELSE IF baseCst.err # Nil THEN [releases |-> <<>>, err |-> baseCst.err]
       ELSE IF reqCst.err # Nil THEN [releases |-> <<>>, err |-> reqCst.err]
       ELSE [releases |-> compatibleFrom(meta, Len(meta), baseCst.con[1],
                              reqCst.con[1], constraint, req, updatable, first, <<>>),
             err |-> Nil]

\* reqsLookup[name]: the last requirement of that name, <<>> when there is none
reqsLookup(requirements, name) ==
    IF \E i \in DOMAIN requirements : requirements[i].Name = name
    THEN <<requirements[CHOOSE i \in DOMAIN requirements :
               /\ requirements[i].Name = name
               /\ \A j \in (i + 1)..Len(requirements) : requirements[j].Name # name]>>
    ELSE <<>>

\* the loop of ComposerUpdatesChecker.CompatibleUpdates from constraint k on
RECURSIVE composerCompatibleFrom(_, _, _, _, _)
composerCompatibleFrom(reg, constraints, requirements, k, result) ==
    IF k > Len(constraints) THEN result
    ELSE LET req == reqsLookup(requirements, constraints[k].Name)
             metaData == getPackagistMeta(reg, constraints[k].Name)
             update == compatibleReleases(constraints[k], req[1], TRUE, TRUE,
                                          metaData.meta)
         IN composerCompatibleFrom(reg, constraints, requirements, k + 1,
                IF req = <<>> THEN result
                ELSE IF metaData.err # Nil THEN result
                ELSE IF update.err # Nil THEN result
                ELSE IF Len(update.releases) # 0
                THEN Append(result, update.releases[1])
                ELSE result)

\* ComposerUpdatesChecker.CompatibleUpdates: [res |-> <<the list>> or nil, err]
ComposerUpdatesChecker_CompatibleUpdates(reg, constraints, requirements) ==
    IF Len(requirements) = 0 \/ Len(constraints) = 0
    THEN [res |-> <<>>, err |-> ErrNoPackages]
    ELSE [res |-> <<composerCompatibleFrom(reg, constraints, requirements, 1, <<>>)>>,
          err |-> Nil]

\* the newest parsable release, whether or not the constraint is satisfied
RECURSIVE composerLastRelease_Newest(_, _, _, _)
composerLastRelease_Newest(metaData, i, constraint, incompatibleOnly) ==
    IF i < 1 THEN [skip |-> FALSE, update |-> <<>>]
    ELSE IF NewComposerVersion(metaData[i].Version).err # Nil
    THEN composerLastRelease_Newest(metaData, i - 1, constraint, incompatibleOnly)
    ELSE [skip |-> FALSE, update |-> <<composerVersionToUpdate(metaData[i])>>]

\* the release loop of ComposerUpdatesChecker.LastUpdates from release i
\* down: "skip" for 'continue skip_pkg', else the update pointer, nil (<<>>)
\* or <<the newest parsable release>>
RECURSIVE composerLastRelease(_, _, _, _)
composerLastRelease(metaData, i, constraint, incompatibleOnly) ==
    IF i < 1 THEN [skip |-> FALSE, update |-> <<>>]
    ELSE LET vers == NewComposerVersion(metaData[i].Version)
         IN IF vers.err # Nil
            THEN composerLastRelease(metaData, i - 1, constraint, incompatibleOnly)
            ELSE IF incompatibleOnly
                    /\ ComposerConstraints_Match(constraint, vers.ver[1])
            THEN [skip |-> TRUE, update |-> <<>>]
            ELSE [skip |-> FALSE,
                  update |-> <<composerVersionToUpdate(metaData[i])>>]

\* the loop of ComposerUpdatesChecker.LastUpdates from package k on
RECURSIVE composerLastFrom(_, _, _, _, _)
composerLastFrom(reg, packages, incompatibleOnly, k, result) ==
    IF k > Len(packages) THEN result
    ELSE LET metaData == getPackagistMeta(reg, packages[k].Name)
             constraint == NewComposerConstraints(packages[k].Version)
             found == composerLastRelease(metaData.meta, Len(metaData.meta),
                                          constraint.con[1], incompatibleOnly)
         IN composerLastFrom(reg, packages, incompatibleOnly, k + 1,
                IF metaData.err # Nil THEN result
                ELSE IF constraint.err # Nil THEN result
                ELSE IF found.skip THEN result
                ELSE IF found.update # <<>>
                THEN Append(result, [found.update[1] EXCEPT
                                        !.CurrentConstraint = packages[k].Version])
                ELSE result)

\* ComposerUpdatesChecker.LastUpdates: [res, err]
ComposerUpdatesChecker_LastUpdates(reg, packages, incompatibleOnly) ==
    IF Len(packages) = 0 THEN [res |-> <<>>, err |-> ErrNoPackages]
    ELSE [res |-> <<composerLastFrom(reg, packages, incompatibleOnly, 1, <<>>)>>,
          err |-> Nil]

\* PyPiClient.Release(ctx, name, ""): [meta, err]
pipRelease(reg, name) ==
    IF name = <<>>
    THEN [meta |-> <<>>, err |-> <<"pacakge name is required and can't be empty">>]
    ELSE IF name \in DOMAIN reg /\ reg[name].status = "unreachable"
    THEN [meta |-> <<>>,
          err |-> <<"unable to send the request: ", "connection refused">>]
    ELSE IF name \notin DOMAIN reg \/ reg[name].status = "unknown"
    THEN [meta |-> <<>>, err |-> <<"Pypi returned with !=200 status code">>]
    ELSE [meta |-> << [Releases |-> reg[name].releases,
                       Author |-> IF Len(reg[name].authors) # 0
                                  THEN reg[name].authors[1] ELSE <<>>,
                       ReleaseURL |-> reg[name].url] >>,
          err |-> Nil]

\* the release loop of PIPUpdatesChecker.LastUpdates from release i down:
\* "skip" for 'continue skip_pkg', else the Update that update points to
RECURSIVE pipLastRelease(_, _, _, _, _, _)
pipLastRelease(meta, i, pkg, constraint, incompatibleOnly, update) ==
    IF i < 1 THEN [skip |-> FALSE, update |-> update]
    ELSE LET vers == NewPipVersion(meta.Releases[i])
         IN IF vers.err # Nil
            THEN pipLastRelease(meta, i - 1, pkg, constraint, incompatibleOnly,
                                update)
            ELSE IF incompatibleOnly /\ PipConstraints_Match(constraint, vers.ver[1])
            THEN [skip |-> TRUE, update |-> update]
            ELSE [skip |-> FALSE,
                  update |-> [update EXCEPT
                                 !.Name = pkg.Name,
                                 !.Version = meta.Releases[i],
                                 !.Author = meta.Author,
                                 !.URL = meta.ReleaseURL,
                                 !.CurrentConstraint = pkg.Version]]

\* the loop of PIPUpdatesChecker.LastUpdates from package k on; update is a
\* pointer to a fresh Update and is never nil
RECURSIVE pipLastFrom(_, _, _, _, _)
pipLastFrom(reg, packages, incompatibleOnly, k, result) ==
    IF k > Len(packages) THEN result
    ELSE LET meta == pipRelease(reg, packages[k].Name)
             constraint == NewPipConstraints(packages[k].Version)
             found == pipLastRelease(meta.meta[1], Len(meta.meta[1].Releases),
                          packages[k], constraint.con[1], incompatibleOnly,
                          ZeroUpdate)
         IN pipLastFrom(reg, packages, incompatibleOnly, k + 1,
                IF meta.err # Nil THEN result
                ELSE IF constraint.err # Nil THEN result
                ELSE IF found.skip THEN result
                ELSE Append(result, found.update))

\* PIPUpdatesChecker.LastUpdates: [res, err]
PIPUpdatesChecker_LastUpdates(reg, packages, incompatibleOnly) ==
    IF Len(packages) = 0 THEN [res |-> <<>>, err |-> ErrNoPackages]
    ELSE [res |-> <<pipLastFrom(reg, packages, incompatibleOnly, 1, <<>>)>>,
          err |-> Nil]

\* PIPUpdatesChecker.CompatibleUpdates: [res, err]
PIPUpdatesChecker_CompatibleUpdates(reg, constraints, requirements) ==
    IF Len(requirements) = 0 \/ Len(constraints) = 0
    THEN [res |-> <<>>, err |-> ErrNoPackages]
    ELSE [res |-> << <<>> >>, err |-> Nil]

\* the longest release list of the registry
MaxReleases == 2

\* the packages of the test fixtures: one whose registry entry varies, one
\* whose entry is fixed, one the registry cannot be asked for
PkgA == IF eco = "composer" THEN <<"t", "e", "s", "t", "/", "p", "a", "c", "k", "a", "g", "e">> ELSE <<"M", "y", "P", "a", "c", "k", "a", "g", "e">>
PkgB == IF eco = "composer" THEN <<"a", "n", "o", "t", "h", "e", "r", "/", "t", "e", "s", "t", "p", "a", "c", "k", "a", "g", "e">> ELSE <<"A", "n", "o", "t", "h", "e", "r", "P", "a", "c", "k", "a", "g", "e">>
PkgOdd == IF eco = "composer" THEN <<"p", "h", "p">> ELSE <<>>

\* release names a registry lists; 'dev-master' is no version
ReleaseInputs == {<<"1", ".", "0", ".", "0">>, <<"1", ".", "2", ".", "3">>, <<"2", ".", "0", ".", "0">>, <<"d", "e", "v", "-", "m", "a", "s", "t", "e", "r">>}

\* the lists of at most n releases, in any order
RECURSIVE ReleaseLists(_)
ReleaseLists(n) ==
    IF n = 0 THEN {<<>>}
    ELSE ReleaseLists(n - 1)
         \cup {Append(l, r) : l \in ReleaseLists(n - 1), r \in ReleaseInputs}

\* what the registry may hold for PkgA: a release list, nothing, no answer
EntryInputs ==
    {[status |-> "listed", releases |-> l, authors |-> <<>>, url |-> <<>>] :
        l \in ReleaseLists(MaxReleases)}
    \cup {[status |-> s, releases |-> <<>>, authors |-> <<>>, url |-> <<>>] :
            s \in {"unknown", "unreachable"}}

EntryB ==
    [status |-> "listed", releases |-> <<<<"3", ".", "2", ".", "5">>, <<"3", ".", "5", ".", "1", "9">>, <<"3", ".", "7", ".", "0">>>>,
     authors |-> <<<<"s", "a", "m">>>>, url |-> <<"h", "t", "t", "p", "s", ":", "/", "/", "e", "x", "a", "m", "p", "l", "e", ".", "o", "r", "g">>]

RegistryInputs ==
    {[name \in {PkgA, PkgB} |-> IF name = PkgA THEN e ELSE EntryB] :
        e \in EntryInputs}

\* the constraints asked for PkgA, the last one not parsable, and the
\* versions a lock file holds for it
ConstraintTexts == {<<">", "=", "1", ".", "0", ".", "0">>, <<"1", ".", "2", ".", "*">>, <<"<", "2", ".", "0", ".", "0">>, <<"o", "o", "p", "s">>}
LockedTexts == {<<"1", ".", "0", ".", "0">>, <<"v", "1", ".", "2", ".", "3">>, <<"d", "e", "v", "-", "m", "a", "s", "t", "e", "r">>}

ConstraintLists ==
    {<<>>}
    \cup {<<[Name |-> PkgA, Version |-> c]>> : c \in ConstraintTexts}
    \cup {<<[Name |-> PkgA, Version |-> c], [Name |-> PkgB, Version |-> <<"3", ".", "5", ".", "*">>]>> :
            c \in ConstraintTexts}
    \cup {<<[Name |-> PkgOdd, Version |-> <<"*">>], [Name |-> PkgA, Version |-> c]>> :
            c \in ConstraintTexts}

RequirementLists ==
    {<<>>}
    \cup {<<[Name |-> PkgA, Version |-> v]>> : v \in LockedTexts}
    \cup {<<[Name |-> PkgB, Version |-> <<"v", "3", ".", "5", ".", "2">>], [Name |-> PkgA, Version |-> v]>> :
            v \in LockedTexts}
    \cup {<<[Name |-> PkgA, Version |-> <<"2", ".", "0", ".", "0">>], [Name |-> PkgA, Version |-> v]>> :
            v \in LockedTexts}

\* the calls of a checker
AskedInputs ==
    {[method |-> "LastUpdates", constraints |-> c, requirements |-> <<>>,
      incompatibleOnly |-> b] : c \in ConstraintLists, b \in BOOLEAN}
    \cup {[method |-> "CompatibleUpdates", constraints |-> c, requirements |-> r,
           incompatibleOnly |-> FALSE] : c \in ConstraintLists, r \in RequirementLists}

CheckerInit ==
    /\ eco \in {"composer", "pip"}
    /\ ops = IF eco = "composer" THEN composerOps ELSE pipOps
    /\ vres = <<>> /\ cres = <<>> /\ cmatch = <<>> /\ vmatch = <<>>
    /\ NoFile /\ NoSearch /\ NoGoroutines
    /\ registry \in RegistryInputs
    /\ asked \in AskedInputs
    /\ updates = <<>>

\* updates, err := ComposerUpdatesChecker.CompatibleUpdates(ctx, constraints, requirements)
CallComposerCompatibleUpdates ==
    /\ eco = "composer" /\ asked.method = "CompatibleUpdates" /\ updates = <<>>
    /\ updates' = <<ComposerUpdatesChecker_CompatibleUpdates(
                        registry, asked.constraints, asked.requirements)>>
    /\ UNCHANGED <<registry, asked, versioneerVars, parserVars, searchVars, goroutineVars>>

\* updates, err := ComposerUpdatesChecker.LastUpdates(ctx, packages, incompatibleOnly)
CallComposerLastUpdates ==
    /\ eco = "composer" /\ asked.method = "LastUpdates" /\ updates = <<>>
    /\ updates' = <<ComposerUpdatesChecker_LastUpdates(
                        registry, asked.constraints, asked.incompatibleOnly)>>
    /\ UNCHANGED <<registry, asked, versioneerVars, parserVars, searchVars, goroutineVars>>

\* updates, err := PIPUpdatesChecker.CompatibleUpdates(ctx, constraints, requirements)
CallPipCompatibleUpdates ==
    /\ eco = "pip" /\ asked.method = "CompatibleUpdates" /\ updates = <<>>
    /\ updates' = <<PIPUpdatesChecker_CompatibleUpdates(
                        registry, asked.constraints, asked.requirements)>>
    /\ UNCHANGED <<registry, asked, versioneerVars, parserVars, searchVars, goroutineVars>>

\* updates, err := PIPUpdatesChecker.LastUpdates(ctx, packages, incompatibleOnly)
CallPipLastUpdates ==
    /\ eco = "pip" /\ asked.method = "LastUpdates" /\ updates = <<>>
    /\ updates' = <<PIPUpdatesChecker_LastUpdates(
                        registry, asked.constraints, asked.incompatibleOnly)>>
    /\ UNCHANGED <<registry, asked, versioneerVars, parserVars, searchVars, goroutineVars>>

CheckerNext ==
    \/ CallComposerCompatibleUpdates
    \/ CallComposerLastUpdates
    \/ CallPipCompatibleUpdates
    \/ CallPipLastUpdates

CheckerSpec == CheckerInit /\ [][CheckerNext]_vars

\* NewComposerVersion or NewPipVersion, by ecosystem
NewVersion(value) ==
    IF eco = "composer" THEN NewComposerVersion(value) ELSE NewPipVersion(value)

\* the release list the registry answers for a package, empty when it
\* answers none
ReleasesOf(name) ==
    IF name \in DOMAIN registry /\ registry[name].status = "listed"
    THEN registry[name].releases ELSE <<>>

\* the list r of updates as (Name, Version) pairs
NameVersions(r) == [i \in DOMAIN r |-> [Name |-> r[i].Name, Version |-> r[i].Version]]

\* the requirement locked for a package; the lock file names it once
DistinctNames(list) ==
    \A i, j \in DOMAIN list : list[i].Name = list[j].Name => i = j

LockedFor(name) ==
    asked.requirements[CHOOSE i \in DOMAIN asked.requirements :
                           asked.requirements[i].Name = name]

\* the places, in the registry's list rel, of the releases that are strictly
\* above the locked version and satisfy the constraint
Updatable(rel, locked, con) ==
    {i \in DOMAIN rel :
        /\ locked.err = Nil /\ con.err = Nil
        /\ NewVersion(rel[i]).err = Nil
        /\ LexLess(Triple(locked.ver[1]), Triple(NewVersion(rel[i]).ver[1]))
        /\ ConstraintsMatch(con.con[1], NewVersion(rel[i]).ver[1])}

\* the last of a non-empty set of places
Last(places) == CHOOSE i \in places : \A j \in places : j <= i

\* what constraint c should contribute: nothing, or its one update
CompatibleOf(c, places) ==
    IF places = {} THEN <<>>
    ELSE <<[Name |-> c.Name, Version |-> ReleasesOf(c.Name)[Last(places)]]>>

\* the updates the constraints from k on should contribute, in their order
RECURSIVE CompatibleFromK(_)
CompatibleFromK(k) ==
    IF k > Len(asked.constraints) THEN <<>>
    ELSE (IF \E i \in DOMAIN asked.requirements :
                 asked.requirements[i].Name = asked.constraints[k].Name
          THEN CompatibleOf(asked.constraints[k],
                   Updatable(ReleasesOf(asked.constraints[k].Name),
                             NewVersion(LockedFor(asked.constraints[k].Name).Version),
                             NewConstraints(asked.constraints[k].Version)))
          ELSE <<>>)
         \o CompatibleFromK(k + 1)

Parsable(rel) == {i \in DOMAIN rel : NewVersion(rel[i]).err = Nil}

\* the updates returned that carry the name of the k-th package asked
ReportedFor(k) ==
    {i \in DOMAIN updates[1].res[1] :
        updates[1].res[1][i].Name = asked.constraints[k].Name}

\* the newest parsable release of a package satisfies its parsed constraint
NewestSatisfies(rel, con) ==
    ConstraintsMatch(con.con[1], NewVersion(rel[Last(Parsable(rel))]).ver[1])

\* the k-th package is reported with its newest parsable release, once, or
\* left out
ReportedNewest(k, rel, reported) ==
    IF reported
    THEN /\ Cardinality(ReportedFor(k)) = 1
         /\ \A i \in ReportedFor(k) :
                updates[1].res[1][i].Version = rel[Last(Parsable(rel))]
    ELSE ReportedFor(k) = {}

\* LastUpdates returned a list
LastReturned ==
    /\ asked.method = "LastUpdates" /\ updates # <<>> /\ updates[1].err = Nil

\* C24 as stated: for both update checkers LastUpdates with
\* incompatibleOnly = true omits a package exactly when the package's newest
\* parsable release (the last parsable entry in registry order) satisfies
\* the package's constraint, and otherwise reports that release; with
\* incompatibleOnly = false it reports the newest parsable release of every
\* package.
C24_LastUpdates_Stated ==
    LastReturned =>
        \A k \in DOMAIN asked.constraints :
            Parsable(ReleasesOf(asked.constraints[k].Name)) # {} =>
                ReportedNewest(k, ReleasesOf(asked.constraints[k].Name),
                    ~(/\ asked.incompatibleOnly
                      /\ NewConstraints(asked.constraints[k].Version).err = Nil
                      /\ NewestSatisfies(ReleasesOf(asked.constraints[k].Name),
                             NewConstraints(asked.constraints[k].Version))))

\* C24: for both update checkers and every package whose constraint parses,
\* LastUpdates with incompatibleOnly = true omits the package exactly when
\* its newest parsable release (the last parsable entry in registry order)
\* satisfies the constraint, and otherwise reports that release; with
\* incompatibleOnly = false it reports the newest parsable release of every
\* such package.  A package whose constraint does not parse is left out.
C24_LastUpdates ==
    LastReturned =>
        \A k \in DOMAIN asked.constraints :
            Parsable(ReleasesOf(asked.constraints[k].Name)) # {} =>
                ReportedNewest(k, ReleasesOf(asked.constraints[k].Name),
                    /\ NewConstraints(asked.constraints[k].Version).err = Nil
                    /\ ~(/\ asked.incompatibleOnly
                         /\ NewestSatisfies(ReleasesOf(asked.constraints[k].Name),
                                NewConstraints(asked.constraints[k].Version))))

C24_Witness ==
    /\ eco = "composer" /\ LastReturned /\ asked.incompatibleOnly
    /\ registry[PkgA].releases = <<<<"1", ".", "0", ".", "0">>, <<"1", ".", "2", ".", "3">>>>
    /\ asked.constraints = <<[Name |-> PkgA, Version |-> <<">", "=", "1", ".", "0", ".", "0">>],
                             [Name |-> PkgB, Version |-> <<"3", ".", "5", ".", "*">>]>>
    /\ NameVersions(updates[1].res[1]) = <<[Name |-> PkgB, Version |-> <<"3", ".", "7", ".", "0">>]>>

\* C28: every Update returned by LastUpdates, for either checker and either
\* value of incompatibleOnly, carries the Name of one of the requested
\* packages and a Version taken from that package's registry release list;
\* a package whose registry look-up fails, whose constraint does not parse,
\* or that has no parsable release contributes no entry.
C28_FromRegistry ==
    LastReturned =>
        /\ \A i \in DOMAIN updates[1].res[1] :
               \E k \in DOMAIN asked.constraints :
                   /\ updates[1].res[1][i].Name = asked.constraints[k].Name
                   /\ updates[1].res[1][i].Version
                          \in Range(ReleasesOf(asked.constraints[k].Name))
        /\ \A k \in DOMAIN asked.constraints :
               (\/ Parsable(ReleasesOf(asked.constraints[k].Name)) = {}
                \/ NewConstraints(asked.constraints[k].Version).err # Nil)
                   => ReportedFor(k) = {}
        /\ Len(updates[1].res[1]) <= Len(asked.constraints)

\* ---------------------------------------------------------------------------
\* Concurrent callers of package versioneer: each goroutine runs one call at
\* a time; a call's locals are its own, the package configuration and the
\* objects returned earlier are shared between the goroutines.
\* ---------------------------------------------------------------------------

\* the goroutines that call the package
Goroutines == 2

\* a goroutine between two calls
Idle ==
    [pc |-> "idle", fn |-> "", arg |-> <<>>, orsRaw |-> <<>>, cs |-> <<>>,
     result |-> <<>>, ors |-> <<>>, ret |-> <<>>]

\* Variant of cfgAfterRead where a parse rebuilds the operator alternation
\* in the order the operators map yields at that moment; C22's property
\* tells it from the original.
cfgAfterRead_Rebuilt(cfg) == Reverse(cfg)

\* the package configuration after a call used it: the compiled patterns
\* are matched against and the operators map is looked up, neither is
\* assigned outside init()
cfgAfterRead(cfg) == cfg

\* the raw OR-groups of an expression: strings.Split(value, "||") in
\* NewComposerConstraints; NewPipConstraints has the one list of clauses
orsRawOf(value) ==
    IF eco = "composer" THEN Split(value, <<"|", "|">>) ELSE <<value>>

\* the raw clauses of a group: strings.FieldsFunc on ',' and ' ' in
\* NewComposerConstraints, strings.Split(value, ",") in NewPipConstraints
csOf(group) ==
    IF eco = "composer" THEN FieldsFunc(group, {",", " "}) ELSE Split(group, <<",">>)

\* the body of the loop over the clauses: the call after clause
\* cs[Len(result) + 1] parsed to pc
clauseParsed(c, pc) ==
    IF pc.err # Nil
    THEN [c EXCEPT !.pc = "returned", !.ret = <<[con |-> Nil, err |-> pc.err]>>]
    ELSE [c EXCEPT !.result = Append(c.result, pc.cc[1])]

\* the end of the loop over the clauses of a group: the group joins ors and
\* the next group is split, or the Constraints are returned
groupParsed(c, ors) ==
    IF Len(ors) < Len(c.orsRaw)
    THEN [c EXCEPT !.ors = ors, !.cs = csOf(c.orsRaw[Len(ors) + 1]), !.result = <<>>]
    ELSE [c EXCEPT !.pc = "returned", !.ors = ors,
                   !.ret = <<[con |-> <<[value |-> c.arg,
                                          constraints |-> IF eco = "composer" THEN ors
                                                          ELSE c.result]>>,
                              err |-> Nil]>>]

\* the arguments the goroutines parse
GoVersionInputs == {<<"1", ".", "5", ".", "0">>, <<"d", "e", "v", "-", "m", "a", "s", "t", "e", "r">>}
GoConstraintInputs == {<<"<", "=", "1", ".", "5", ",", ">", "1", ".", "0">>, <<"1", ".", "*", "|", "|", "o", "o", "p", "s">>}

\* the objects returned before the goroutines start: one Constraints, of an
\* input that parses, and one Version
HeapInputs ==
    {[con |-> NewConstraints(c).con[1], ver |-> NewVersion(v).ver[1]] :
        c \in {x \in GoConstraintInputs : NewConstraints(x).err = Nil},
        v \in {<<"1", ".", "5", ".", "0">>, <<"2", ".", "0", ".", "0">>}}

GoroutineInit ==
    /\ eco \in {"composer", "pip"}
    /\ ops \in OpsOrders(IF eco = "composer" THEN composerOps ELSE pipOps)
    /\ vres = <<>> /\ cres = <<>> /\ cmatch = <<>> /\ vmatch = <<>>
    /\ NoFile /\ NoSearch /\ NoChecker
    /\ heap \in HeapInputs
    /\ calls = [g \in 1..Goroutines |-> Idle]

\* what a step of a goroutine leaves alone besides the other goroutines
GoUnchanged ==
    /\ UNCHANGED <<eco, vres, cres, cmatch, vmatch>>
    /\ UNCHANGED <<parserVars, searchVars, checkerVars>>
    /\ UNCHANGED heap

\* goroutine g is between two calls
Free(g) == calls[g].pc \in {"idle", "returned"}

\* goroutine g calls NewComposerVersion or NewPipVersion
GoCallNewVersion(g, value) ==
    /\ Free(g)
    /\ calls' = [calls EXCEPT ![g] = [Idle EXCEPT !.pc = "matching version",
                                                  !.fn = "NewVersion", !.arg = value]]
    /\ UNCHANGED ops
    /\ GoUnchanged

\* the version pattern is matched and the Version is returned
GoVersionReturned(g) ==
    /\ calls[g].pc = "matching version"
    /\ calls' = [calls EXCEPT ![g].pc = "returned",
                              ![g].ret = <<NewVersion(calls[g].arg)>>]
    /\ ops' = cfgAfterRead(ops)
    /\ GoUnchanged

\* goroutine g calls NewComposerConstraints or NewPipConstraints: the
\* argument is split and no clause is parsed yet
GoCallNewConstraints(g, value) ==
    /\ Free(g)
    /\ calls' = [calls EXCEPT ![g] =
                    [pc |-> "parsing", fn |-> "NewConstraints", arg |-> value,
                     orsRaw |-> orsRawOf(value), cs |-> csOf(orsRawOf(value)[1]),
                     result |-> <<>>, ors |-> <<>>, ret |-> <<>>]]
    /\ UNCHANGED ops
    /\ GoUnchanged

\* one turn of the loop over the clauses: parseComposerConstraint or
\* parsePipConstraint of the next clause
GoParseClause(g) ==
    /\ calls[g].pc = "parsing"
    /\ Len(calls[g].result) < Len(calls[g].cs)
    /\ calls' = [calls EXCEPT ![g] =
                    clauseParsed(calls[g],
                        IF eco = "composer"
                        THEN parseComposerConstraint(calls[g].cs[Len(calls[g].result) + 1])
                        ELSE parsePipConstraint(calls[g].cs[Len(calls[g].result) + 1]))]
    /\ ops' = cfgAfterRead(ops)
    /\ GoUnchanged

\* the loop over the clauses of a group ends
GoGroupParsed(g) ==
    /\ calls[g].pc = "parsing"
    /\ Len(calls[g].result) = Len(calls[g].cs)
    /\ calls' = [calls EXCEPT ![g] =
                    groupParsed(calls[g], Append(calls[g].ors, calls[g].result))]
    /\ UNCHANGED ops
    /\ GoUnchanged

\* goroutine g calls Match on the shared Constraints with the shared
\* Version, or Match on the Version with the Constraints
GoCallMatch(g, fn) ==
    /\ Free(g)
    /\ calls' = [calls EXCEPT ![g] = [Idle EXCEPT !.pc = "matching", !.fn = fn]]
    /\ UNCHANGED ops
    /\ GoUnchanged

\* Match reads the two objects and returns
GoMatchReturned(g) ==
    /\ calls[g].pc = "matching"
    /\ calls' = [calls EXCEPT ![g].pc = "returned",
                              ![g].ret = <<IF calls[g].fn = "Constraints.Match"
                                             THEN ConstraintsMatch(heap.con, heap.ver)
                                             ELSE IF eco = "composer"
                                             THEN ComposerVersion_Match(heap.ver, heap.con)
                                             ELSE PipVersion_Match(heap.ver, heap.con)>>]
    /\ UNCHANGED ops
    /\ GoUnchanged

GoroutineNext ==
    \E g \in 1..Goroutines :
        \/ \E value \in GoVersionInputs : GoCallNewVersion(g, value)
        \/ GoVersionReturned(g)
        \/ \E value \in GoConstraintInputs : GoCallNewConstraints(g, value)
        \/ GoParseClause(g)
        \/ GoGroupParsed(g)
        \/ \E fn \in {"Constraints.Match", "Version.Match"} : GoCallMatch(g, fn)
        \/ GoMatchReturned(g)

GoroutineSpec == GoroutineInit /\ [][GoroutineNext]_vars

\* what the call of goroutine g returns when nothing else runs: the
\* function of its arguments, the shared objects being the ones parsed of
\* their texts
Alone(g) ==
    CASE calls[g].fn = "NewVersion" -> NewVersion(calls[g].arg)
      [] calls[g].fn = "NewConstraints" -> NewConstraints(calls[g].arg)
      [] OTHER -> ConstraintsMatch(NewConstraints(heap.con.value).con[1],
                                   NewVersion(heap.ver.value).ver[1])

\* every call that returned gave what it gives alone
AsAlone ==
    \A g \in 1..Goroutines :
        calls[g].pc = "returned" => calls[g].ret = <<Alone(g)>>

\* C22: after package initialization no parse or match call writes the
\* per-ecosystem configuration or an object returned earlier, and in any
\* interleaving of concurrent parse and match calls every call returns
\* what it returns when run alone.
C22_Interleaved ==
    /\ []AsAlone
    /\ [][ops' = ops /\ heap' = heap]_vars

\* one goroutine parsed the expression of the shared Constraints anew while
\* the other matched the shared objects, and the other goroutine is inside
\* its next call
C22_Witness ==
    /\ calls[1].pc = "returned" /\ calls[1].fn = "NewConstraints"
    /\ calls[1].ret[1].err = Nil
    /\ heap.con.value = calls[1].arg
    /\ Len(calls[1].ors) = 1 /\ Len(calls[1].result) = 2
    /\ calls[2].pc = "parsing" /\ Len(calls[2].result) = 1
    /\ calls[2].arg = calls[1].arg

=============================================================================
